---- MODULE Spec2Model ----
(***************************************************************************)
(* Type inference of the peephole verifier: the constraint gatherer        *)
(* (TypeConstraints), the abstract type model and its type-vector          *)
(* enumerator (AbstractTypeModel), model extension (_ModelExtender) and    *)
(* the Validator, as implemented in alive/typing.py.                       *)
(*                                                                         *)
(* Terms are identified by object identity; a term is a number of Terms    *)
(* and that number also plays the role of id(term).  The type classes of   *)
(* language.py and util/disjoint.py are not part of the sources at hand;   *)
(* they are modelled from their description (see the comments there).      *)
(***************************************************************************)
EXTENDS Integers, Sequences, FiniteSets, TLC

(***************************************************************************)
(* Bounds                                                                  *)
(***************************************************************************)
\* number of terms and of gatherer calls in the general specification
NTerms == 2
MaxCalls == 3
\* number of terms and of calls when only width orderings matter
NTermsOrd == 3
MaxCallsOrd == 4
\* number of terms and of calls when only width equalities matter
NTermsEq == 4
MaxCallsEq == 4
\* gatherer calls before a model is extended, calls of the extending term
MaxCallsExt == 1
MaxExtCalls == 2
\* gatherer calls before a model with defaulted terms is extended
MaxCallsDef == 2
\* gatherer calls before a model is enumerated, enumerations of one model
MaxCallsEnum == 2
NEnums == 2
\* invocations of one SMTTranslator
MaxMustOps == 2
MaxFreshOps == 4
\* type models enumerated for one refinement check
MaxModels == 2

Max2(a, b) == IF a > b THEN a ELSE b

Terms == 1 .. Max2(NTerms + 1, Max2(NTermsOrd, NTermsEq))

(***************************************************************************)
(* Constraint classes, typing.py line 14                                   *)
(***************************************************************************)
FIRST_CLASS == 0
NUMBER == 1
FLOAT == 2
INT_PTR == 3
PTR == 4
INT == 5
BOOL == 6
Classes == FIRST_CLASS .. BOOL
\* the value None where a constraint class is expected
NoClass == -1

\* most_specific without the exchange of its arguments (lines 36-37)
most_specific_noswap(c1, c2) ==
  IF c1 = NUMBER /\ c2 = PTR THEN NoClass
  ELSE IF c1 = NUMBER /\ c2 = INT_PTR THEN INT
  ELSE IF c1 = FLOAT /\ c2 # FLOAT THEN NoClass
  ELSE IF c1 = PTR /\ c2 # PTR THEN NoClass
  ELSE c2

\* most_specific without the rule for NUMBER and INT_PTR (lines 43-44)
most_specific_noint(c1, c2) ==
  LET lo == IF c1 > c2 THEN c2 ELSE c1
      hi == IF c1 > c2 THEN c1 ELSE c2
  IN IF lo = NUMBER /\ hi = PTR THEN NoClass
     ELSE IF lo = FLOAT /\ hi # FLOAT THEN NoClass
     ELSE IF lo = PTR /\ hi # PTR THEN NoClass
     ELSE hi

\* most_specific, typing.py lines 35-52
most_specific(c1, c2) ==
  LET lo == IF c1 > c2 THEN c2 ELSE c1
      hi == IF c1 > c2 THEN c1 ELSE c2
  IN IF lo = NUMBER /\ hi = PTR THEN NoClass
     ELSE IF lo = NUMBER /\ hi = INT_PTR THEN INT
     ELSE IF lo = FLOAT /\ hi # FLOAT THEN NoClass
     ELSE IF lo = PTR /\ hi # PTR THEN NoClass
     ELSE hi

(***************************************************************************)
(* Types (language.py).  A value is a triple <<kind, a, b>>:               *)
(*   <<"int", width, 0>>, <<"float", exp, frac>>, <<"ptr", 0, 0>>,         *)
(*   <<"num", n, 0>> for a plain integer (a width bound) and               *)
(*   <<"none", 0, 0>> for None.                                            *)
(***************************************************************************)
IntType(w) == <<"int", w, 0>>
HalfType == <<"float", 5, 11>>
SingleType == <<"float", 8, 24>>
DoubleType == <<"float", 11, 53>>
X86FP80Type == <<"float", 15, 64>>
PtrType == <<"ptr", 0, 0>>
Num(n) == <<"num", n, 0>>
NoneTy == <<"none", 0, 0>>

isInt(ty) == ty[1] = "int"
isFloat(ty) == ty[1] = "float"
isPtr(ty) == ty[1] = "ptr"
isNum(ty) == ty[1] = "num"

\* typing.py line 32
predicate_default == IntType(64)

\* AbstractTypeModel.pointer_width, typing.py line 359
pointer_width == 64

\* AbstractTypeModel.float_tys, typing.py line 363
float_tys == <<HalfType, SingleType, DoubleType>>

\* meets_constraint with BOOL looked up like INT
meets_constraint_boolAsInt(con, ty) ==
  IF con = FIRST_CLASS THEN isInt(ty) \/ isFloat(ty) \/ isPtr(ty)
  ELSE IF con = NUMBER THEN isInt(ty) \/ isFloat(ty)
  ELSE IF con = FLOAT THEN isFloat(ty)
  ELSE IF con = INT_PTR THEN isInt(ty) \/ isPtr(ty)
  ELSE IF con = PTR THEN isPtr(ty)
  ELSE isInt(ty)

\* _constraint_class and meets_constraint, typing.py lines 65-78
meets_constraint(con, ty) ==
  IF con = BOOL THEN ty = IntType(1)
  ELSE IF con = FIRST_CLASS THEN isInt(ty) \/ isFloat(ty) \/ isPtr(ty)
  ELSE IF con = NUMBER THEN isInt(ty) \/ isFloat(ty)
  ELSE IF con = FLOAT THEN isFloat(ty)
  ELSE IF con = INT_PTR THEN isInt(ty) \/ isPtr(ty)
  ELSE IF con = PTR THEN isPtr(ty)
  ELSE isInt(ty)

\* AbstractTypeModel.bits, typing.py lines 401-416; -1 stands for the failed
\* assertion on a value that is no type (None)
bits(ty) ==
  IF isInt(ty) THEN ty[2]
  ELSE IF ty = X86FP80Type THEN 80
  ELSE IF isFloat(ty) THEN ty[2] + ty[3]
  ELSE IF isPtr(ty) THEN pointer_width
  ELSE -1

(***************************************************************************)
(* The ordering of types (language.py): within a kind the smaller width    *)
(* is the smaller type, the floats are ordered Half < Single < Double <    *)
(* X86FP80, an integer type compares with a plain integer by its width     *)
(* and a float type by its size in bits.  A pointer has no ordering of its *)
(* own: against a plain integer the run-time's default ordering puts the   *)
(* number first; between types of different kinds, and between pointers,   *)
(* a comparison has no specified outcome, and `amb' is the outcome the     *)
(* run-time happens to give.                                               *)
(***************************************************************************)
Comparable(x, y) ==
  \/ x[1] = y[1] /\ x[1] \in {"int", "float", "num"}
  \/ x[1] \in {"int", "float", "ptr"} /\ isNum(y)
  \/ isNum(x) /\ y[1] \in {"int", "float", "ptr"}

Measure(x) == IF isNum(x) \/ isInt(x) THEN x[2]
              ELSE IF isFloat(x) THEN bits(x)
              ELSE pointer_width

\* -1, 0, 1 as x is smaller than, equal to or larger than y
Compare(x, y) ==
  IF isPtr(x) /\ isNum(y) THEN 1
  ELSE IF isNum(x) /\ isPtr(y) THEN -1
  ELSE IF Measure(x) < Measure(y) THEN -1
  ELSE IF Measure(x) > Measure(y) THEN 1
  ELSE 0

TypeGt(x, y, amb) == IF Comparable(x, y) THEN Compare(x, y) = 1 ELSE amb
TypeLe(x, y, amb) == IF Comparable(x, y) THEN Compare(x, y) <= 0 ELSE amb
TypeGe(x, y, amb) == IF Comparable(x, y) THEN Compare(x, y) >= 0 ELSE amb
\* the builtin max(x, y): y replaces x when y > x
TypeMax(x, y, amb) == IF TypeGt(y, x, amb) THEN y ELSE x

(***************************************************************************)
(* Results of a method call: the object after the call and the exception   *)
(* it raised, <<class, message>>, or NoErr.                                *)
(***************************************************************************)
NoErr == <<"", "">>
Ok(S) == [st |-> S, err |-> NoErr]
Fail(S, e) == [st |-> S, err |-> e]

ErrTypes == <<"Error", "Incompatible types">>
ErrKey == <<"KeyError", "specifics[term]">>
ErrConstraints == <<"Error", "Incompatible constraints">>
ErrCircular == <<"Error", "circular ordering">>
ErrNotMet == <<"Error", "Incompatible constraints: specific is not constraint">>
ErrUnify == <<"Error", "Cannot unify types">>
ErrAmbiguous == <<"Error", "Ambiguous type">>
ErrTooStrong == <<"Error", "Constraints too strong">>
ErrExtSpecific == <<"Error", "Incompatible constraints (extend)">>
ErrImproper == <<"Error", "Improperly unified">>
ErrAssert == <<"AssertionError", "">>
ErrTypeError == <<"TypeError", "">>

(***************************************************************************)
(* A TypeConstraints object (typing.py lines 84-91) is a record with the   *)
(* fields                                                                  *)
(*   sets              the disjoint subsets: term -> representative, 0 for *)
(*                     a term that is no key yet                           *)
(*   specifics         rep -> type, NoneTy where there is no entry         *)
(*   constraints       rep -> class, NoClass where there is no entry       *)
(*   ordering          pairs <<lo, hi>>, lo being <<"t", term>> or         *)
(*                     <<"n", integer>>                                    *)
(*   width_equalities  pairs <<a, b>>                                      *)
(*   default_rep       0 for None                                          *)
(* and, for a _ModelExtender (lines 592-596),                              *)
(*   rep_tyvar         term -> tyvar, -1 where there is no entry           *)
(*   tyvar_reps        tyvar -> term, 0 for None                           *)
(***************************************************************************)
NewConstraints(ntyvars) ==
  [sets |-> [t \in Terms |-> 0],
   specifics |-> [t \in Terms |-> NoneTy],
   constraints |-> [t \in Terms |-> NoClass],
   ordering |-> {},
   width_equalities |-> {},
   default_rep |-> 0,
   rep_tyvar |-> [t \in Terms |-> -1],
   tyvar_reps |-> [v \in 0 .. ntyvars - 1 |-> 0]]

\* self.constraints[r] of the defaultdict (line 87)
Con(S, r) == IF S.constraints[r] = NoClass THEN FIRST_CLASS ELSE S.constraints[r]

(***************************************************************************)
(* util/disjoint.py, DisjointSubsets: union-find with union by size        *)
(***************************************************************************)
reps(S) == {t \in Terms : S.sets[t] = t}
subset(S, r) == {t \in Terms : S.sets[t] = r}
Size(S, r) == Cardinality(subset(S, r))

\* the body of TypeConstraints.specific once r = rep(term) is known
SpecificAt(S, r, term, ty) ==
  IF ty = NoneTy THEN Ok(S)
  ELSE LET S1 == IF S.specifics[r] = NoneTy
                 THEN [S EXCEPT !.specifics[r] = ty] ELSE S
       IN IF S1.specifics[r] # ty
          THEN (IF S1.specifics[term] = NoneTy
                THEN Fail(S1, ErrKey) ELSE Fail(S1, ErrTypes))
          ELSE Ok(S1)

\* the body of TypeConstraints.constrain once r = rep(term) is known
ConstrainAt(S, r, con) ==
  LET con0 == Con(S, r)
      c == most_specific(con0, con)
  IN IF c = NoClass
     THEN Fail([S EXCEPT !.constraints[r] = con0], ErrConstraints)
     ELSE Ok([S EXCEPT !.constraints[r] = c])

\* TypeConstraints._merge, and _ModelExtender._merge when ext
Merge(S, t1, t2, ext) ==
  LET mergeSpecific(A) ==
        IF A.specifics[t2] # NoneTy
        THEN SpecificAt([A EXCEPT !.specifics[t2] = NoneTy], t1, t1,
                        A.specifics[t2])
        ELSE Ok(A)
      mergeConstraint(a) ==
        IF a.err # NoErr THEN a
        ELSE IF a.st.constraints[t2] # NoClass
        THEN ConstrainAt([a.st EXCEPT !.constraints[t2] = NoClass], t1,
                         a.st.constraints[t2])
        ELSE a
      mergeDefault(b) ==
        IF b.err # NoErr THEN b
        ELSE IF b.st.default_rep = t2
        THEN Ok([b.st EXCEPT !.default_rep = t1])
        ELSE b
      mergeTyvar(c) ==
        IF c.err # NoErr \/ ~ext THEN c
        ELSE IF c.st.rep_tyvar[t2] = -1 THEN c
        ELSE IF c.st.rep_tyvar[t1] # -1 THEN Fail(c.st, ErrUnify)
        ELSE Ok([c.st EXCEPT !.rep_tyvar[t2] = -1,
                             !.rep_tyvar[t1] = c.st.rep_tyvar[t2],
                             !.tyvar_reps[c.st.rep_tyvar[t2]] = t1])
  IN mergeTyvar(mergeDefault(mergeConstraint(mergeSpecific(S))))

\* DisjointSubsets.unify(key1, key2, merge): the larger subset survives (the
\* first on a tie); merge(survivor, absorbed) runs before the subsets are
\* joined
Unify(S, key1, key2, ext) ==
  LET r1 == S.sets[key1]
      r2 == S.sets[key2]
      swap == Size(S, r2) > Size(S, r1)
      t1 == IF swap THEN r2 ELSE r1
      t2 == IF swap THEN r1 ELSE r2
      join(m) ==
        IF m.err # NoErr THEN m
        ELSE Ok([m.st EXCEPT !.sets =
                   [t \in Terms |-> IF m.st.sets[t] = t2 THEN t1
                                    ELSE m.st.sets[t]]])
  IN IF r1 = r2 THEN Ok(S) ELSE join(Merge(S, t1, t2, ext))

\* TypeConstraints._init_term, and _ModelExtender._init_term when ext
InitTerm(S, term, ctx, ext) ==
  LET S1 == [S EXCEPT !.sets[term] = term]
  IN IF ~ext \/ ctx[term] = -1 THEN Ok(S1)
     ELSE LET tyvar == ctx[term]
              rep == S1.tyvar_reps[tyvar]
          IN IF rep # 0 THEN Unify(S1, term, rep, ext)
             ELSE Ok([S1 EXCEPT !.tyvar_reps[tyvar] = term,
                                !.rep_tyvar[term] = tyvar])

\* TypeConstraints.rep: the field r is the value returned
Rep(S, term, ctx, ext) ==
  LET initialised(i) == [st |-> i.st, err |-> i.err, r |-> term]
  IN IF S.sets[term] # 0 THEN [st |-> S, err |-> NoErr, r |-> S.sets[term]]
     ELSE initialised(InitTerm(S, term, ctx, ext))

\* TypeConstraints.eq_types with two terms
eq_types(S, ta, tb, ctx, ext) ==
  LET unify(a, b) ==
        IF b.err # NoErr THEN Fail(b.st, b.err)
        ELSE Unify(b.st, a.r, b.r, ext)
      second(a) ==
        IF a.err # NoErr THEN Fail(a.st, a.err)
        ELSE unify(a, Rep(a.st, tb, ctx, ext))
  IN second(Rep(S, ta, ctx, ext))

\* TypeConstraints.specific
specific(S, term, ty, ctx, ext) ==
  LET pin(a) ==
        IF a.err # NoErr THEN Fail(a.st, a.err)
        ELSE SpecificAt(a.st, a.r, term, ty)
  IN pin(Rep(S, term, ctx, ext))

\* TypeConstraints.constrain
constrain(S, term, con, ctx, ext) ==
  LET meet(a) ==
        IF a.err # NoErr THEN Fail(a.st, a.err)
        ELSE ConstrainAt(a.st, a.r, con)
  IN meet(Rep(S, term, ctx, ext))

\* TypeConstraints._init_default, and _ModelExtender._init_default when ext
InitDefault(S, rep, default_id, ext) ==
  LET conInt(a) ==
        IF a.err # NoErr THEN a ELSE ConstrainAt(a.st, a.st.sets[rep], INT)
      setDefault(b) ==
        IF b.err # NoErr THEN b ELSE Ok([b.st EXCEPT !.default_rep = rep])
      setTyvar(c) ==
        IF c.err # NoErr \/ ~ext THEN c
        ELSE IF c.st.rep_tyvar[rep] # -1 THEN Fail(c.st, ErrAssert)
        ELSE IF c.st.tyvar_reps[default_id] # 0 THEN Fail(c.st, ErrAssert)
        ELSE Ok([c.st EXCEPT !.rep_tyvar[rep] = default_id,
                             !.tyvar_reps[default_id] = rep])
  IN setTyvar(setDefault(conInt(
       SpecificAt(S, S.sets[rep], rep, predicate_default))))

\* TypeConstraints.default
default(S, term, default_id, ctx, ext) ==
  LET init(a) ==
        IF a.err # NoErr THEN Fail(a.st, a.err)
        ELSE InitDefault(a.st, a.r, default_id, ext)
  IN IF S.default_rep = 0 THEN init(Rep(S, term, ctx, ext))
     ELSE eq_types(S, term, S.default_rep, ctx, ext)

\* TypeConstraints.width_order with a term as the lower bound
width_order(S, lo, hi, ctx, ext) ==
  LET add(a, b) ==
        IF b.err # NoErr THEN Fail(b.st, b.err)
        ELSE Ok([b.st EXCEPT !.ordering = @ \cup {<< <<"t", a.r>>, b.r >>}])
      second(a) ==
        IF a.err # NoErr THEN Fail(a.st, a.err)
        ELSE add(a, Rep(a.st, hi, ctx, ext))
  IN second(Rep(S, lo, ctx, ext))

\* TypeConstraints.width_order with an integer as the lower bound
width_order_int(S, lo, hi, ctx, ext) ==
  LET add(b) ==
        IF b.err # NoErr THEN Fail(b.st, b.err)
        ELSE Ok([b.st EXCEPT !.ordering = @ \cup {<< <<"n", lo>>, b.r >>}])
  IN add(Rep(S, hi, ctx, ext))

\* TypeConstraints.width_equal
width_equal(S, ta, tb, ctx, ext) ==
  LET add(a, b) ==
        IF b.err # NoErr THEN Fail(b.st, b.err)
        ELSE Ok([b.st EXCEPT !.width_equalities = @ \cup {<<a.r, b.r>>}])
      second(a) ==
        IF a.err # NoErr THEN Fail(a.st, a.err)
        ELSE add(a, Rep(a.st, tb, ctx, ext))
  IN second(Rep(S, ta, ctx, ext))

(***************************************************************************)
(* TypeConstraints.get_type_model                                          *)
(***************************************************************************)
\* the orders in which a set may be iterated
Perms(set) ==
  LET n == Cardinality(set)
  IN {s \in [1 .. n -> set] : \A i, j \in 1 .. n : s[i] = s[j] => i = j}

Range(a, b) == IF b > a THEN [i \in 1 .. (b - a) |-> a + i - 1] ELSE <<>>

\* TypeConstraints.simplify_orderings
simplify_orderings(S) ==
  LET ords == {<< IF p[1][1] = "n" THEN p[1] ELSE <<"t", S.sets[p[1][2]]>>,
                  S.sets[p[2]] >> : p \in S.ordering}
      eqs0 == {<<S.sets[p[1]], S.sets[p[2]]>> :
                 p \in {q \in S.width_equalities : q[1] # q[2]}}
      eqs == {IF p[1] < p[2] THEN p ELSE <<p[2], p[1]>> : p \in eqs0}
      touched == {p[2] : p \in {q \in ords : q[1][1] = "t"}}
                   \cup {p[1][2] : p \in {q \in ords : q[1][1] = "t"}}
  IN IF \A p \in ords : p[1][1] = "n" \/
          most_specific(Con(S, p[1][2]), Con(S, p[2])) # NoClass
     THEN Ok([S EXCEPT !.ordering = ords, !.width_equalities = eqs,
                !.constraints = [t \in Terms |->
                   IF t \in touched THEN Con(S, t) ELSE S.constraints[t]]])
     ELSE Fail(S, ErrAssert)

\* lower_bounds[hi] as filled by the loop of lines 258-262 when the set
\* self.ordering is iterated in the order ordSeq
RECURSIVE LowerBoundsOf(_, _)
LowerBoundsOf(ordSeq, hi) ==
  IF ordSeq = <<>> THEN <<>>
  ELSE LET p == Head(ordSeq)
       IN IF p[2] = hi /\ p[1][1] = "t"
          THEN <<p[1][2]>> \o LowerBoundsOf(Tail(ordSeq), hi)
          ELSE LowerBoundsOf(Tail(ordSeq), hi)

\* min_width[hi] of lines 258-260, -1 where there is no entry
MinWidthOf(ords, hi) ==
  LET ns == {p[1][2] : p \in {q \in ords : q[2] = hi /\ q[1][1] = "n"}}
  IN IF ns = {} THEN -1
     ELSE CHOOSE m \in ns \cup {0} : \A n \in ns \cup {0} : n <= m

\* visit with the representative numbered before its lower bounds
RECURSIVE visit_preorder(_, _, _), visit_preorder_all(_, _, _)
visit_preorder(lb, rep, D) ==
  IF D.err # NoErr THEN D
  ELSE IF D.finished[rep] = 2 THEN D
  ELSE IF D.finished[rep] = 1 THEN [D EXCEPT !.err = ErrCircular]
  ELSE LET D1 == visit_preorder_all(lb, lb[rep],
                   [D EXCEPT !.finished[rep] = 1, !.order = Append(@, rep)])
       IN IF D1.err # NoErr THEN D1 ELSE [D1 EXCEPT !.finished[rep] = 2]
visit_preorder_all(lb, ps, D) ==
  IF ps = <<>> \/ D.err # NoErr THEN D
  ELSE visit_preorder_all(lb, Tail(ps), visit_preorder(lb, Head(ps), D))

\* visit that takes a representative under visit for a finished one
RECURSIVE visit_nocycle(_, _, _), visit_nocycle_all(_, _, _)
visit_nocycle(lb, rep, D) ==
  IF D.finished[rep] # 0 THEN D
  ELSE LET D1 == visit_nocycle_all(lb, lb[rep], [D EXCEPT !.finished[rep] = 1])
       IN [D1 EXCEPT !.order = Append(@, rep), !.finished[rep] = 2]
visit_nocycle_all(lb, ps, D) ==
  IF ps = <<>> THEN D
  ELSE visit_nocycle_all(lb, Tail(ps), visit_nocycle(lb, Head(ps), D))

\* visit of lines 273-289; finished[rep] is 0 when rep is not in finished,
\* 1 for False and 2 for True
RECURSIVE visit(_, _, _), visit_all(_, _, _)
visit(lb, rep, D) ==
  IF D.err # NoErr THEN D
  ELSE IF D.finished[rep] = 2 THEN D
  ELSE IF D.finished[rep] = 1 THEN [D EXCEPT !.err = ErrCircular]
  ELSE LET D1 == visit_all(lb, lb[rep], [D EXCEPT !.finished[rep] = 1])
       IN IF D1.err # NoErr THEN D1
          ELSE [D1 EXCEPT !.order = Append(@, rep), !.finished[rep] = 2]
visit_all(lb, ps, D) ==
  IF ps = <<>> \/ D.err # NoErr THEN D
  ELSE visit_all(lb, Tail(ps), visit(lb, Head(ps), D))

\* the loop of lines 291-292 over self.sets.reps() iterated in order repSeq
topo_order(lb, repSeq) ==
  visit_all(lb, repSeq,
            [finished |-> [t \in Terms |-> 0], order |-> <<>>, err |-> NoErr])

\* tyvars[rep] of line 294
TyvarOf(order, rep) == (CHOOSE i \in 1 .. Len(order) : order[i] = rep) - 1

\* the loop of lines 306-319 from position k of order: the pinned specifics
\* are validated and the context is populated, one type variable at a time
RECURSIVE populate(_, _, _, _)
populate(S, order, k, ctx) ==
  IF k > Len(order) THEN [ctx |-> ctx, err |-> NoErr]
  ELSE LET rep == order[k]
       IN IF S.specifics[rep] # NoneTy /\
             ~meets_constraint(Con(S, rep), S.specifics[rep])
          THEN [ctx |-> ctx, err |-> ErrNotMet]
          ELSE IF \E t \in subset(S, rep) : ctx[t] # -1
          THEN [ctx |-> ctx, err |-> ErrAssert]
          ELSE populate(S, order, k + 1,
                 [t \in Terms |-> IF t \in subset(S, rep) THEN k - 1
                                  ELSE ctx[t]])

\* the loop of lines 323-332 over self.width_equalities iterated in the
\* order eqSeq; we[v] = -1 where v has no entry
RECURSIVE width_equality_loop(_, _, _)
width_equality_loop(eqSeq, order, we) ==
  IF eqSeq = <<>> THEN [we |-> we, err |-> NoErr]
  ELSE LET a == Head(eqSeq)[1]
           b == Head(eqSeq)[2]
           ta == TyvarOf(order, a)
           tb == TyvarOf(order, b)
           va == IF ta > tb THEN tb ELSE ta
           vb == IF ta > tb THEN ta ELSE tb
           we1 == IF we[vb] # -1 THEN [we EXCEPT ![va] = we[vb]] ELSE we
       IN IF a = b THEN [we |-> we, err |-> ErrAssert]
          ELSE width_equality_loop(Tail(eqSeq), order, [we1 EXCEPT ![vb] = va])

\* an AbstractTypeModel (lines 365-373); the dictionaries are functions on
\* the type variables with NoneTy, -1 and <<>> where there is no entry
NoModel ==
  [tyvars |-> 0, constraint |-> <<>>, specific |-> <<>>, min_width |-> <<>>,
   lower_bounds |-> <<>>, width_equality |-> <<>>, default_id |-> 0]

\* get_type_model, lines 247-353, with the iteration orders of the three
\* unordered collections as parameters: ordSeq of self.ordering, repSeq of
\* self.sets.reps() and eqSeq of self.width_equalities (after simplification)
get_type_model(S0, ordSeq, repSeq, eqSeq, ctx) ==
  LET simp == simplify_orderings(S0)
      S == simp.st
      lb == [t \in Terms |-> LowerBoundsOf(ordSeq, t)]
      D == topo_order(lb, repSeq)
      order == D.order
      n == Len(order)
      pop == populate(S, order, 1, ctx)
      wel == width_equality_loop(eqSeq, order, [v \in 0 .. n |-> -1])
      nodef == S.default_rep = 0
      tyvars == IF nodef THEN n + 1 ELSE n
      Sfin == [S EXCEPT !.constraints =
                 [t \in Terms |-> IF t \in reps(S) THEN Con(S, t)
                                  ELSE S.constraints[t]]]
      M == [tyvars |-> tyvars,
            constraint |-> [v \in 0 .. tyvars - 1 |->
                              IF v = n THEN INT ELSE Con(S, order[v + 1])],
            specific |-> [v \in 0 .. tyvars - 1 |->
                            IF v = n THEN predicate_default
                            ELSE S.specifics[order[v + 1]]],
            min_width |-> [v \in 0 .. tyvars - 1 |->
                             IF v = n THEN -1
                             ELSE MinWidthOf(S.ordering, order[v + 1])],
            lower_bounds |-> [v \in 0 .. tyvars - 1 |->
                                IF v = n THEN <<>>
                                ELSE [i \in 1 .. Len(lb[order[v + 1]]) |->
                                        TyvarOf(order, lb[order[v + 1]][i])]],
            width_equality |-> [v \in 0 .. tyvars - 1 |-> wel.we[v]],
            default_id |-> IF nodef THEN n ELSE TyvarOf(order, S.default_rep)]
  IN IF simp.err # NoErr
     THEN [st |-> S0, model |-> NoModel, ctx |-> ctx, err |-> simp.err]
     ELSE IF D.err # NoErr
     THEN [st |-> S, model |-> NoModel, ctx |-> ctx, err |-> D.err]
     ELSE IF pop.err # NoErr
     THEN [st |-> S, model |-> NoModel, ctx |-> pop.ctx, err |-> pop.err]
     ELSE IF wel.err # NoErr
     THEN [st |-> Sfin, model |-> NoModel, ctx |-> pop.ctx, err |-> wel.err]
     ELSE [st |-> Sfin, model |-> M, ctx |-> pop.ctx, err |-> NoErr]

(***************************************************************************)
(* AbstractTypeModel: the enumeration of type vectors                      *)
(***************************************************************************)
\* AbstractTypeModel.int_types, lines 377-391
int_types(min_width, max_width) ==
  (IF min_width <= 4 /\ 4 < max_width THEN <<IntType(4)>> ELSE <<>>)
  \o (IF min_width <= 8 /\ 8 < max_width THEN <<IntType(8)>> ELSE <<>>)
  \o [i \in DOMAIN Range(min_width, IF max_width < 4 THEN max_width ELSE 4)
        |-> IntType(Range(min_width,
                          IF max_width < 4 THEN max_width ELSE 4)[i])]
  \o [i \in DOMAIN Range(Max2(min_width, 5),
                         IF max_width < 8 THEN max_width ELSE 8)
        |-> IntType(Range(Max2(min_width, 5),
                          IF max_width < 8 THEN max_width ELSE 8)[i])]
  \o [i \in DOMAIN Range(Max2(min_width, 9), max_width)
        |-> IntType(Range(Max2(min_width, 9), max_width)[i])]

\* max(vector[v] for v in lbs) starting from cur
RECURSIVE MaxOver(_, _, _, _)
MaxOver(lbs, vector, cur, amb) ==
  IF lbs = <<>> THEN cur
  ELSE MaxOver(Tail(lbs), vector, TypeMax(cur, vector[Head(lbs)], amb), amb)

\* AbstractTypeModel.floor, lines 393-399: a type or a plain integer
floor(M, vid, vector, amb) ==
  LET lbs == M.lower_bounds[vid]
      f == IF lbs # <<>>
           THEN MaxOver(Tail(lbs), vector, vector[Head(lbs)], amb)
           ELSE Num(0)
      mw == IF M.min_width[vid] = -1 THEN 0 ELSE M.min_width[vid]
  IN TypeMax(f, Num(mw), amb)

\* the candidate types of an unpinned variable, lines 440-456; err is the
\* exception raised while they are set up
candidates(M, vid, vector, int_limit, amb) ==
  LET con == M.constraint[vid]
      fl == floor(M, vid, vector, amb)
  IN IF con = FIRST_CLASS
     THEN [tys |-> int_types(1, int_limit) \o <<PtrType>> \o float_tys,
           err |-> NoErr]
     ELSE IF con = NUMBER
     THEN [tys |-> int_types(1, int_limit) \o float_tys, err |-> NoErr]
     ELSE IF con = FLOAT
     THEN [tys |-> SelectSeq(float_tys, LAMBDA t : TypeGt(t, fl, amb)),
           err |-> NoErr]
     ELSE IF con = INT_PTR
     THEN [tys |-> int_types(1, int_limit) \o <<PtrType>>, err |-> NoErr]
     ELSE IF con = INT
     THEN (IF isInt(fl) \/ isNum(fl)
           THEN [tys |-> int_types(fl[2] + 1, int_limit), err |-> NoErr]
           ELSE [tys |-> <<>>, err |-> ErrTypeError])
     ELSE IF con = BOOL
     THEN [tys |-> <<IntType(1)>>, err |-> NoErr]
     ELSE [tys |-> <<>>, err |-> ErrAssert]

\* AbstractTypeModel._enum_vectors, lines 420-467, run to exhaustion: out is
\* the sequence of vectors yielded, err the exception that ended the
\* generator and vector the shared list as it is left behind
RECURSIVE enum_vectors(_, _, _, _, _), enum_loop(_, _, _, _, _, _, _)
enum_vectors(M, vid, vector, int_limit, amb) ==
  IF vid >= M.tyvars
  THEN [out |-> <<[v \in 0 .. M.tyvars - 1 |-> vector[v]]>>, err |-> NoErr,
        vector |-> vector]
  ELSE IF M.specific[vid] # NoneTy
  THEN (IF TypeLe(vector[vid], floor(M, vid, vector, amb), amb)
        THEN [out |-> <<>>, err |-> NoErr, vector |-> vector]
        ELSE IF M.width_equality[vid] # -1 /\
                vector[M.width_equality[vid]] = NoneTy
        THEN [out |-> <<>>, err |-> ErrAssert, vector |-> vector]
        ELSE IF M.width_equality[vid] # -1 /\
                bits(vector[vid]) # bits(vector[M.width_equality[vid]])
        THEN [out |-> <<>>, err |-> NoErr, vector |-> vector]
        ELSE enum_vectors(M, vid + 1, vector, int_limit, amb))
  ELSE LET c == candidates(M, vid, vector, int_limit, amb)
           eq == M.width_equality[vid]
       IN IF c.err # NoErr
          THEN [out |-> <<>>, err |-> c.err, vector |-> vector]
          ELSE IF eq # -1 /\ vector[eq] = NoneTy
          THEN [out |-> <<>>, err |-> ErrAssert, vector |-> vector]
          ELSE enum_loop(M, vid,
                 IF eq = -1 THEN c.tys
                 ELSE SelectSeq(c.tys, LAMBDA t : bits(t) = bits(vector[eq])),
                 vector, int_limit, amb, <<>>)
enum_loop(M, vid, tys, vector, int_limit, amb, acc) ==
  IF tys = <<>> THEN [out |-> acc, err |-> NoErr, vector |-> vector]
  ELSE LET r == enum_vectors(M, vid + 1, [vector EXCEPT ![vid] = Head(tys)],
                             int_limit, amb)
       IN IF r.err # NoErr
          THEN [out |-> acc \o r.out, err |-> r.err, vector |-> r.vector]
          ELSE enum_loop(M, vid, Tail(tys), r.vector, int_limit, amb,
                         acc \o r.out)

\* AbstractTypeModel.type_vectors, lines 469-477
type_vectors(M, int_limit, amb) ==
  enum_vectors(M, 0, [v \in 0 .. M.tyvars - 1 |-> M.specific[v]],
               int_limit, amb)

(***************************************************************************)
(* AbstractTypeModel: helper queries and extend                            *)
(***************************************************************************)
\* AbstractTypeModel.width_equal_tyvars, lines 479-491.  The loop follows
\* the width_equality chain; a chain longer than the number of variables
\* has entered a cycle and the loop does not end, which is reported as
\* "diverges".
RECURSIVE width_equal_walk(_, _, _, _)
width_equal_walk(M, v1, v2, fuel) ==
  IF M.width_equality[v2] = -1 THEN "False"
  ELSE IF fuel = 0 THEN "diverges"
  ELSE IF M.width_equality[v2] = v1 THEN "True"
  ELSE width_equal_walk(M, v1, M.width_equality[v2], fuel - 1)

width_equal_tyvars(M, v1, v2) ==
  width_equal_walk(M, IF v1 > v2 THEN v2 ELSE v1, IF v1 > v2 THEN v1 ELSE v2,
                   M.tyvars)

\* AbstractTypeModel.transitive_lower_bounds, lines 493-504, as the set of
\* the variables it yields
RECURSIVE transitive_lower_bounds(_, _)
transitive_lower_bounds(M, tyvar) ==
  LET direct == {M.lower_bounds[tyvar][i] : i \in DOMAIN M.lower_bounds[tyvar]}
  IN direct \cup UNION {transitive_lower_bounds(M, v) : v \in direct}

\* lines 526-529: the defaultable terms dl, in order
RECURSIVE extend_defaults(_, _, _, _)
extend_defaults(X, dl, M, ctx) ==
  LET rest(d) ==
        IF d.err # NoErr THEN d
        ELSE extend_defaults(d.st, Tail(dl), M, ctx)
  IN IF dl = <<>> THEN Ok(X)
     ELSE IF X.rep_tyvar[X.sets[Head(dl)]] = -1
     THEN rest(default(X, X.sets[Head(dl)], M.default_id, ctx, TRUE))
     ELSE extend_defaults(X, Tail(dl), M, ctx)

\* lines 531-549 for one representative
extend_check_rep(X, M, rep) ==
  IF X.rep_tyvar[rep] = -1 THEN ErrAmbiguous
  ELSE LET tyvar == X.rep_tyvar[rep]
           c == M.constraint[tyvar]
       IN IF most_specific(c, Con(X, rep)) # c THEN ErrTooStrong
          ELSE IF X.specifics[rep] = NoneTy THEN NoErr
          ELSE IF M.specific[tyvar] = NoneTy THEN ErrTooStrong
          ELSE IF X.specifics[rep] # M.specific[tyvar] THEN ErrExtSpecific
          ELSE NoErr

\* lines 554-559 for one pair of the simplified width_equalities
extend_check_eq(X, M, p) ==
  IF p[1] = p[2] THEN ErrImproper
  ELSE LET w == width_equal_tyvars(M, X.rep_tyvar[p[1]], X.rep_tyvar[p[2]])
       IN IF w = "diverges" THEN <<"diverges", "width_equal_tyvars">>
          ELSE IF w = "False" THEN ErrTooStrong
          ELSE NoErr

\* lines 562-574 for one pair of the simplified ordering
extend_check_ord(X, M, p) ==
  LET v2 == X.rep_tyvar[p[2]]
      mw(v) == IF M.min_width[v] = -1 THEN 0 ELSE M.min_width[v]
  IN IF p[1][1] = "n"
     THEN (IF /\ p[1][2] > mw(v2)
              /\ \A v \in transitive_lower_bounds(M, v2) : p[1][2] > mw(v)
              /\ (M.specific[v2] = NoneTy \/ p[1][2] > bits(M.specific[v2]))
           THEN ErrTooStrong ELSE NoErr)
     ELSE (IF \A v \in transitive_lower_bounds(M, v2) :
                v # X.rep_tyvar[p[1][2]]
           THEN ErrTooStrong ELSE NoErr)

\* the first exception of a loop, errs[i] being what its body raises on the
\* i-th element (NoErr if nothing)
FirstErr(errs) ==
  LET bad == {i \in DOMAIN errs : errs[i] # NoErr}
  IN IF bad = {} THEN NoErr
     ELSE errs[CHOOSE i \in bad : \A j \in bad : i <= j]

\* AbstractTypeModel.extend from line 524 on, after the constraints of the
\* term have been gathered in the _ModelExtender X: dl are the defaultable
\* terms; repSeq, eqSeq and ordSeq are the iteration orders of tc.sets.reps(),
\* tc.width_equalities and tc.ordering
extend_finish(X0, M, ctx, dl, repSeq, eqSeq, ordSeq) ==
  LET checked(X) ==
        LET e2 == FirstErr([i \in DOMAIN eqSeq |->
                             extend_check_eq(X, M, eqSeq[i])])
            e3 == FirstErr([i \in DOMAIN ordSeq |->
                             extend_check_ord(X, M, ordSeq[i])])
            keys == {t \in Terms : X.sets[t] # 0}
        IN IF e2 # NoErr THEN [st |-> X, ctx |-> ctx, err |-> e2]
           ELSE IF e3 # NoErr THEN [st |-> X, ctx |-> ctx, err |-> e3]
           ELSE IF \E t \in keys :
                     ctx[t] # -1 /\ ctx[t] # X.rep_tyvar[X.sets[t]]
           THEN [st |-> X, ctx |-> ctx, err |-> ErrAssert]
           ELSE [st |-> X,
                 ctx |-> [t \in Terms |->
                            IF t \in keys THEN X.rep_tyvar[X.sets[t]]
                            ELSE ctx[t]],
                 err |-> NoErr]
      simplified(d, simp) ==
        IF simp.err # NoErr THEN [st |-> d.st, ctx |-> ctx, err |-> simp.err]
        ELSE checked(simp.st)
      defaulted(d) ==
        LET e1 == FirstErr([i \in DOMAIN repSeq |->
                             extend_check_rep(d.st, M, repSeq[i])])
        IN IF d.err # NoErr THEN [st |-> d.st, ctx |-> ctx, err |-> d.err]
           ELSE IF e1 # NoErr THEN [st |-> d.st, ctx |-> ctx, err |-> e1]
           ELSE simplified(d, simplify_orderings(d.st))
  IN defaulted(extend_defaults(X0, dl, M, ctx))

(***************************************************************************)
(* Validator, lines 635-705: whether the call c of a term's                *)
(* type_constraints passes on the type vector v                            *)
(***************************************************************************)
validator_passes(c, v, ctx, amb) ==
  LET type(term) == v[ctx[term]]
  IN IF c.op = "eq_types" THEN type(c.b) = type(c.a)
     ELSE IF c.op = "specific" THEN c.ty = NoneTy \/ type(c.a) = c.ty
     ELSE IF c.op = "constrain" THEN meets_constraint(c.con, type(c.a))
     ELSE IF c.op = "width_order"
     THEN ~TypeGe(type(c.a), type(c.b), amb)
     ELSE IF c.op = "width_order_int"
     THEN ~TypeGe(Num(c.a), type(c.b), amb)
     ELSE IF c.op = "width_equal" THEN bits(type(c.a)) = bits(type(c.b))
     ELSE TRUE

(***************************************************************************)
(* The generator type_vectors returns, one next() at a time.  A generator  *)
(* is the list `vector' its frames share, the candidates that remain at    *)
(* each level of the nested _enum_vectors frames (stack[vid + 1] for the   *)
(* frame of vid, empty for the frame of a pinned variable), the vectors it *)
(* has yielded and the exception that ended it.                            *)
(***************************************************************************)
Enums == 1 .. NEnums

NoGen ==
  [status |-> "none", vector |-> <<>>, stack |-> <<>>, out |-> <<>>,
   err |-> NoErr, limit |-> 0, amb |-> FALSE]

\* type_vectors, lines 469-477: a new list with the pinned types and a
\* generator over it that has not run yet
new_generator(M, int_limit, amb) ==
  [status |-> "created",
   vector |-> [v \in 0 .. M.tyvars - 1 |-> M.specific[v]],
   stack |-> <<>>, out |-> <<>>, err |-> NoErr, limit |-> int_limit,
   amb |-> amb]

\* where a run of the generator stops: a yield of tuple(vector), the end of
\* the outermost frame or an exception
Yield(M, vector, stack) ==
  [kind |-> "yield", val |-> [v \in 0 .. M.tyvars - 1 |-> vector[v]],
   vector |-> vector, stack |-> stack, err |-> NoErr]
Stop(vector) ==
  [kind |-> "stop", val |-> <<>>, vector |-> vector, stack |-> <<>>,
   err |-> NoErr]
Raise(vector, e) ==
  [kind |-> "raise", val |-> <<>>, vector |-> vector, stack |-> <<>>,
   err |-> e]

\* gen_enter: a new frame _enum_vectors(vid, vector, int_limit) runs from
\* its first line (421); gen_iter: the innermost frame goes on with its
\* loop `for t in tys' (line 464), or returns to its caller's loop.  The
\* list and the stack a frame is entered with are bound as values (v, s).
RECURSIVE gen_enter(_, _, _, _, _, _), gen_iter(_, _, _, _, _)
gen_enter(M, vid, vector, stack, int_limit, amb) ==
  LET eq == M.width_equality[vid]
      filtered(tys) ==
        IF eq = -1 THEN tys
        ELSE SelectSeq(tys, LAMBDA t : bits(t) = bits(vector[eq]))
      loop(c) ==
        IF c.err # NoErr THEN Raise(vector, c.err)
        ELSE IF eq # -1 /\ vector[eq] = NoneTy THEN Raise(vector, ErrAssert)
        ELSE CHOOSE r \in {gen_iter(M, vector, s, int_limit, amb) :
                             s \in {Append(stack, filtered(c.tys))}} : TRUE
  IN IF vid >= M.tyvars THEN Yield(M, vector, stack)
     ELSE IF M.specific[vid] # NoneTy
     THEN (IF TypeLe(vector[vid], floor(M, vid, vector, amb), amb)
           THEN gen_iter(M, vector, stack, int_limit, amb)
           ELSE IF eq # -1 /\ vector[eq] = NoneTy
           THEN Raise(vector, ErrAssert)
           ELSE IF eq # -1 /\ bits(vector[vid]) # bits(vector[eq])
           THEN gen_iter(M, vector, stack, int_limit, amb)
           ELSE CHOOSE r \in {gen_enter(M, vid + 1, vector, s, int_limit, amb) :
                                s \in {Append(stack, <<>>)}} : TRUE)
     ELSE CHOOSE r \in {loop(c) :
                          c \in {candidates(M, vid, vector, int_limit, amb)}} :
            TRUE
gen_iter(M, vector, stack, int_limit, amb) ==
  IF stack = <<>> THEN Stop(vector)
  ELSE IF stack[Len(stack)] = <<>>
  THEN CHOOSE r \in {gen_iter(M, vector, s, int_limit, amb) :
                       s \in {SubSeq(stack, 1, Len(stack) - 1)}} : TRUE
  ELSE CHOOSE r \in
         {gen_enter(M, Len(stack), v, s, int_limit, amb) :
            v \in {[vector EXCEPT ![Len(stack) - 1] = Head(stack[Len(stack)])]},
            s \in {[stack EXCEPT ![Len(stack)] = Tail(@)]}} : TRUE

\* next() that runs the outermost frame from its first line again instead
\* of resuming the suspended frames
gen_next_restart(M, g) ==
  LET stopped(r) ==
        [g EXCEPT !.status = IF r.kind = "yield" THEN "suspended"
                             ELSE "finished",
                  !.vector = r.vector,
                  !.stack = r.stack,
                  !.out = IF r.kind = "yield" THEN Append(@, r.val) ELSE @,
                  !.err = r.err]
  IN CHOOSE n \in
       {stopped(r) :
          r \in {gen_enter(M, 0, g.vector, <<>>, g.limit, g.amb)}} : TRUE

\* next() on the generator g of the model M
gen_next(M, g) ==
  LET stopped(r) ==
        [g EXCEPT !.status = IF r.kind = "yield" THEN "suspended"
                             ELSE "finished",
                  !.vector = r.vector,
                  !.stack = r.stack,
                  !.out = IF r.kind = "yield" THEN Append(@, r.val) ELSE @,
                  !.err = r.err]
  IN CHOOSE n \in
       {stopped(r) :
          r \in {IF g.status = "created"
                 THEN gen_enter(M, 0, g.vector, <<>>, g.limit, g.amb)
                 ELSE gen_iter(M, g.vector, g.stack, g.limit, g.amb)}} : TRUE

(***************************************************************************)
(* smtinterp.py: terms, Z3 expressions and the SMTTranslator.  A term is   *)
(* <<class, x, y, flags>>: an Input carries its name as <<first           *)
(* character, rest>>, a Literal its value, the other classes their two     *)
(* arguments (NoArg where there is none).  A Z3 expression is a tuple      *)
(* headed by the name of the z3 function that built it.                    *)
(***************************************************************************)
NoArg == <<"None">>
Input(first, rest) == <<"Input", <<first, rest>>, NoArg, <<>>>>
Literal(val) == <<"Literal", val, NoArg, <<>>>>
UndefValue == <<"UndefValue", NoArg, NoArg, <<>>>>
Node(class, x, y, flags) == <<class, x, y, flags>>

\* the subclasses of language.Constant among the classes modelled
ConstantClasses == {"Literal", "UndefValue", "OneBitsCnxp"}

\* is_const, lines 14-16, on any object: a term or a Z3 expression
is_const(o) ==
  \/ o[1] \in ConstantClasses
  \/ o[1] = "Input" /\ o[2][1] = "C"

\* self.types[term]: the type models used give every term the same type
TypeOf(T, term) == T.types

\* _ty_sort, lines 78-88
ty_sort(ty) ==
  IF isInt(ty) THEN <<"z3.BitVecSort", ty[2]>>
  ELSE IF isPtr(ty) THEN <<"z3.BitVecSort", 64>>
  ELSE <<"z3.FPSort", bits(ty)>>

\* SMTTranslator.bits, lines 135-144
translator_bits(T, term) ==
  IF isInt(TypeOf(T, term)) THEN TypeOf(T, term)[2] ELSE 64

\* x.size() of a bit-vector expression
SizeOf(x) == 8

Z1(f, a) == <<f, a>>
Z2(f, a, b) == <<f, a, b>>
BV(n) == <<"z3.BitVecVal", n>>

\* the predicates handed to _mk_must_analysis and _mk_bin_must_analysis and
\* the bodies of the predicates written out, lines 425-463
Power2(x) ==
  Z2("z3.And", Z2("!=", x, BV(0)), Z2("==", Z2("&", x, Z2("-", x, BV(1))), BV(0)))
Power2OrZ(x) == Z2("==", Z2("&", x, Z2("-", x, BV(1))), BV(0))
ShiftedMask(x) ==
  Z2("z3.And", Z2("!=", Z2("|", Z2("-", x, BV(1)), x), BV(0)),
     Z2("==", Z2("&", Z2("+", Z2("|", Z2("-", x, BV(1)), x), BV(1)),
                 Z2("|", Z2("-", x, BV(1)), x)), BV(0)))
MaskZero(x, y) == Z2("==", Z2("&", x, y), BV(0))
Overflow(ext, n, op, x, y) ==
  Z2("==", Z2(op, Z2(ext, n, x), Z2(ext, n, y)), Z2(ext, n, Z2(op, x, y)))
NUWShl(x, y) == Z2("==", Z2("z3.LShR", Z2("<<", x, y), y), x)

\* the expression of a must-analysis predicate on evaluated arguments
PredicateOf(class, x, y) ==
  CASE class = "Power2Pred" -> Power2(x)
    [] class = "Power2OrZPred" -> Power2OrZ(x)
    [] class = "ShiftedMaskPred" -> ShiftedMask(x)
    [] class = "MaskZeroPred" -> MaskZero(x, y)
    [] class = "NSWAddPred" -> Overflow("z3.SignExt", 1, "+", x, y)
    [] class = "NUWAddPred" -> Overflow("z3.ZeroExt", 1, "+", x, y)
    [] class = "NSWSubPred" -> Overflow("z3.SignExt", 1, "-", x, y)
    [] class = "NUWSubPred" -> Overflow("z3.ZeroExt", 1, "-", x, y)
    [] class = "NSWMulPred" -> Overflow("z3.SignExt", SizeOf(x), "*", x, y)
    [] class = "NUWMulPred" -> Overflow("z3.ZeroExt", SizeOf(x), "*", x, y)
    [] class = "NUWShlPred" -> NUWShl(x, y)

UnaryMust == {"Power2Pred", "Power2OrZPred"}
BinaryMust ==
  {"MaskZeroPred", "NSWAddPred", "NUWAddPred", "NSWSubPred", "NUWSubPred"}
UnaryDirect == {"ShiftedMaskPred"}
BinaryDirect == {"NSWMulPred", "NUWMulPred", "NUWShlPred"}

\* SMTTranslator.__init__, lines 93-98; z3names are the names handed to
\* z3.Bool, z3.BitVec and z3.Const by fresh_bool, fresh_bv and UndefValue
SMTTranslator(type_model) ==
  [types |-> type_model, fresh |-> 0, defs |-> <<>>, nops |-> <<>>,
   qvars |-> <<>>, z3names |-> <<>>]

\* a translator whose type model types every term i8
NewTranslator == SMTTranslator(IntType(8))

\* the result of a visitor method: the translator after it and the value
Val(T, v) == [T |-> T, v |-> v]

add_defs(T, defs) == [T EXCEPT !.defs = @ \o defs]
add_nops(T, nops) == [T EXCEPT !.nops = @ \o nops]
add_qvar(T, qvars) == [T EXCEPT !.qvars = @ \o qvars]

\* fresh_bool, lines 146-148, and fresh_bv, lines 150-152
fresh_name(T, prefix) == prefix \o ToString(T.fresh + 1)
fresh_bool(T) ==
  Val([T EXCEPT !.fresh = @ + 1,
                !.z3names = Append(@, fresh_name(T, "ana_"))],
      Z1("z3.Bool", fresh_name(T, "ana_")))
fresh_bv(T, size) ==
  Val([T EXCEPT !.fresh = @ + 1,
                !.z3names = Append(@, fresh_name(T, "ana_"))],
      Z2("z3.BitVec", fresh_name(T, "ana_"), size))

\* UndefValue, lines 278-285
visit_UndefValue(T, term) ==
  LET x == Z2("z3.Const", fresh_name(T, "undef_"), ty_sort(TypeOf(T, term)))
  IN Val(add_qvar([T EXCEPT !.fresh = @ + 1,
                            !.z3names = Append(@, fresh_name(T, "undef_"))],
                  <<x>>),
         x)

\* the body of pred in _mk_must_analysis once the argument is evaluated,
\* lines 53-60: is_const is applied to the evaluated argument
must_analysis(class, x) ==
  LET implied(c) ==
        Val(add_defs(c.T, <<Z2("z3.Implies", c.v, PredicateOf(class, x.v, x.v))>>),
            c.v)
  IN IF is_const(x.v) THEN Val(x.T, PredicateOf(class, x.v, x.v))
     ELSE implied(fresh_bool(x.T))

\* the body of bop in _mk_bin_must_analysis once the arguments are
\* evaluated, lines 66-74: is_const is applied to the argument terms
bin_must_analysis(class, term, x, y) ==
  LET implied(c) ==
        Val(add_defs(c.T, <<Z2("z3.Implies", c.v, PredicateOf(class, x.v, y.v))>>),
            c.v)
  IN IF is_const(term[2]) /\ is_const(term[3])
     THEN Val(y.T, PredicateOf(class, x.v, y.v))
     ELSE implied(fresh_bool(y.T))

\* AddInst, lines 160-163, and UDivInst, lines 179-181, of _mk_bop (18-32)
\* once the arguments are evaluated
visit_AddInst(term, x, y) ==
  Val(add_nops(y.T,
        [i \in DOMAIN term[4] |->
           IF term[4][i] = "nsw"
           THEN Overflow("z3.SignExt", 1, "+", x.v, y.v)
           ELSE Overflow("z3.ZeroExt", 1, "+", x.v, y.v)]),
      Z2("+", x.v, y.v))
visit_UDivInst(term, x, y) ==
  Val(add_nops(add_defs(y.T, <<Z2("!=", y.v, BV(0))>>),
        [i \in DOMAIN term[4] |->
           Z2("==", Z2("*", Z2("z3.UDiv", x.v, y.v), y.v), x.v)]),
      Z2("z3.UDiv", x.v, y.v))

\* OneBitsCnxp, lines 325-331, once the argument is evaluated
visit_OneBitsCnxp(x) ==
  LET constrained(b) ==
        Val(add_defs(b.T, <<Z2("==", Z2("&", b.v, Z1("~", x.v)), BV(0))>>),
            b.v)
  IN constrained(fresh_bv(x.T, SizeOf(x.v)))

\* SMTTranslator.eval, lines 100-108: term.accept(self) dispatches on the
\* class of the term
RECURSIVE eval(_, _)
eval(T, term) ==
  LET class == term[1]
      binary(x) ==
        LET both(y) ==
              IF class \in BinaryMust
              THEN bin_must_analysis(class, term, x, y)
              ELSE IF class \in BinaryDirect
              THEN Val(y.T, PredicateOf(class, x.v, y.v))
              ELSE IF class = "AddInst" THEN visit_AddInst(term, x, y)
              ELSE visit_UDivInst(term, x, y)
        IN CHOOSE r \in {both(y) : y \in {eval(x.T, term[3])}} : TRUE
      unary(x) ==
        IF class \in UnaryMust THEN must_analysis(class, x)
        ELSE IF class \in UnaryDirect
        THEN Val(x.T, PredicateOf(class, x.v, x.v))
        ELSE IF class = "OneBitsCnxp" THEN visit_OneBitsCnxp(x)
        ELSE binary(x)
  IN IF class = "Input"
     THEN Val(T, Z2("z3.Const", term[2][1] \o term[2][2],
                    ty_sort(TypeOf(T, term))))
     ELSE IF class = "Literal"
     THEN Val(T, Z2("z3.BitVecVal", term[2], translator_bits(T, term)))
     ELSE IF class = "UndefValue" THEN visit_UndefValue(T, term)
     ELSE CHOOSE r \in {unary(x) : x \in {eval(T, term[2])}} : TRUE

\* a __call__ that also starts the counter of fresh names again
translator_call_restart(T, term) ==
  eval([T EXCEPT !.defs = <<>>, !.nops = <<>>, !.qvars = <<>>, !.fresh = 0],
       term)

\* SMTTranslator.__call__, lines 110-125: the value and the three lists
\* of the translator, which the caller and the translator then share
translator_call(T, term) ==
  eval([T EXCEPT !.defs = <<>>, !.nops = <<>>, !.qvars = <<>>], term)

\* the translator under test: the object T, the tuples its __call__s have
\* returned (the lists of the last one are still those of the translator)
\* and the last invocation with the translator as it was before
NoInvocation == [op |-> "", term |-> NoArg, v |-> NoArg, pre |-> NewTranslator]
NewSmt == [T |-> NewTranslator, ret |-> <<>>, last |-> NoInvocation, ops |-> 0]

(***************************************************************************)
(* check_refinement and check_refinement_at, lines 541-620.  The solver is *)
(* outside the program: the result of s.check() is any of sat, unsat and   *)
(* unknown, and after unknown s.model() may or may not have a model.       *)
(***************************************************************************)
\* RefinementError.UB, POISON, UNEQUAL = range(3), line 500
UB == 0
POISON == 1
UNEQUAL == 2

CheckResults == {"sat", "unsat", "unknown"}

\* what check_refinement_at and check_refinement return or raise
NoneResult ==
  [kind |-> "None", cause |-> -1, types |-> NoneTy, src |-> NoArg,
   srcv |-> NoArg, tgtv |-> NoArg, ids |-> <<>>]
Z3Exception ==
  [kind |-> "Z3Exception", cause |-> -1, types |-> NoneTy, src |-> NoArg,
   srcv |-> NoArg, tgtv |-> NoArg, ids |-> <<>>]
RefinementError(cause, types, src, srcv, tgtv, ids) ==
  [kind |-> "RefinementError", cause |-> cause, types |-> types, src |-> src,
   srcv |-> srcv, tgtv |-> tgtv, ids |-> ids]

\* _get_inputs, lines 535-538: the Input subterms of a term, depth first
RECURSIVE get_inputs(_)
get_inputs(term) ==
  IF term = NoArg \/ term[1] \in {"Literal", "UndefValue"} THEN <<>>
  ELSE IF term[1] = "Input" THEN <<term>>
  ELSE get_inputs(term[2]) \o get_inputs(term[3])

\* lines 542-550: the translations of src, tgt and pre by one translator
translation(type_model, src, tgt, pre) ==
  LET third(s, t, p) ==
        [sv |-> s.v,
         sd |-> IF pre = NoArg THEN s.T.defs
                ELSE s.T.defs \o <<p.v>> \o p.T.defs,
         sp |-> s.T.nops, qvars |-> s.T.qvars,
         tv |-> t.v, td |-> t.T.defs, tp |-> t.T.nops,
         smt |-> IF pre = NoArg THEN t.T ELSE p.T]
      second(s, t) ==
        CHOOSE r \in {third(s, t, p) :
                        p \in {IF pre = NoArg THEN t
                               ELSE translator_call(t.T, pre)}} : TRUE
      first(s) ==
        CHOOSE r \in {second(s, t) : t \in {translator_call(s.T, tgt)}} : TRUE
  IN CHOOSE r \in {first(s) :
                     s \in {translator_call(SMTTranslator(type_model), src)}} :
       TRUE

\* the assertion of the query for a cause, lines 554-560, 573-575, 587-593
query_expr(cause, tr, poison_undef, float) ==
  LET expr ==
        IF cause = UB
        THEN (IF poison_undef
              THEN tr.sd \o tr.sp \o <<Z1("z3.Not", Z1("z3.And", tr.td))>>
              ELSE tr.sd \o <<Z1("z3.Not", Z1("z3.And", tr.td))>>)
        ELSE IF cause = POISON
        THEN tr.sd \o tr.sp \o <<Z1("z3.Not", Z1("z3.And", tr.tp))>>
        ELSE IF float
        THEN tr.sd \o tr.sp \o
             <<Z2("!=", tr.sv, tr.tv),
               Z1("z3.Not", Z2("z3.And", Z1("z3.fpIsNaN", tr.sv),
                                         Z1("z3.fpIsNaN", tr.tv)))>>
        ELSE tr.sd \o tr.sp \o <<Z2("!=", tr.sv, tr.tv)>>
  IN IF tr.qvars # <<>> THEN Z2("z3.ForAll", tr.qvars, Z1("z3.And", expr))
     ELSE expr

\* a query whose result is only sat counts as failed
failed_sat(result) == result = "sat"

\* `if s.check() != z3.unsat', lines 565, 580, 598
failed(result) == result # "unsat"

\* every failed query is reported as a mismatch in values
error_cause_unequal(query) == UNEQUAL

\* the cause given to RefinementError after the query failed, lines 569,
\* 584, 602
error_cause(query) == query

\* a check_refinement that goes on to the next type model after an error
stops_never(r) == FALSE

\* `if r: return r', lines 615-616
stops(r) == r.kind # "None"

\* a run of check_refinement: its arguments, the type models z3_models
\* yields, the one being checked (i), the query to issue next, the
\* translation in use, the queries issued so far with their results, what
\* check_refinement_at returned for the type models done, and the outcome
NoCheck ==
  [status |-> "none", src |-> NoArg, tgt |-> NoArg, pre |-> NoArg,
   poison_undef |-> FALSE, models |-> <<>>, i |-> 0, query |-> UB,
   tr |-> <<>>, log |-> <<>>, rets |-> <<>>, result |-> NoneResult]

\* the loop of check_refinement reaches the i-th type model, line 613:
\* check_refinement_at runs up to its first query, or the loop is over
begin_model(R, i) ==
  IF i > Len(R.models)
  THEN [R EXCEPT !.status = "returned", !.result = NoneResult]
  ELSE [R EXCEPT !.status = "running", !.i = i, !.query = UB,
                 !.tr = translation(R.models[i], R.src, R.tgt, R.pre)]

\* check_refinement_at from s.check() of the query R.query on: the result
\* of the solver, and whether s.model() has a model
after_check(R, result, available) ==
  LET logged ==
        [R EXCEPT !.log =
           Append(@, [model |-> R.i, query |-> R.query,
                      expr |-> query_expr(R.query, R.tr, R.poison_undef,
                                          isFloat(R.models[R.i])),
                      result |-> result])]
      err ==
        RefinementError(error_cause(R.query), R.models[R.i], R.src, R.tr.sv,
                        R.tr.tv,
                        [k \in DOMAIN get_inputs(R.src) |->
                           <<get_inputs(R.src)[k],
                             eval(R.tr.smt, get_inputs(R.src)[k]).v>>])
      returned(L, r) ==
        IF stops(r)
        THEN [L EXCEPT !.status = "returned", !.rets = Append(@, r),
                       !.result = r]
        ELSE begin_model([L EXCEPT !.rets = Append(@, r)], R.i + 1)
  IN IF failed(result)
     THEN (IF available THEN returned(logged, err)
           ELSE [logged EXCEPT !.status = "raised", !.result = Z3Exception])
     ELSE IF R.query # UNEQUAL THEN [logged EXCEPT !.query = @ + 1]
     ELSE returned(logged, NoneResult)

(***************************************************************************)
(* The state machine                                                       *)
(***************************************************************************)
VARIABLES
  tc,       \* the TypeConstraints object that gathers the constraints
  context,  \* the global context: term -> type variable, -1 for no entry
  model,    \* the AbstractTypeModel returned by get_type_model
  vectors,  \* the run of type_vectors: vectors yielded, exception, arguments
  xt,       \* the _ModelExtender of extend
  xcalls,   \* the calls the extending term has issued, in order
  defaultable, \* the defaultable terms extend collected (lines 514-522)
  pc,       \* "gather", "model", "vectors", "extending", "extended", "failed"
  err,      \* the exception raised by the last call, NoErr if none
  last,     \* the last call
  calls,    \* number of gatherer calls so far
  gens,     \* the generators returned by calls of type_vectors
  smt,      \* an SMTTranslator and what its calls returned
  ref       \* a run of check_refinement

vars ==
  <<tc, context, model, vectors, xt, xcalls, defaultable, pc, err, last,
    calls, gens, smt, ref>>

\* the state of the type checker
tvars ==
  <<tc, context, model, vectors, xt, xcalls, defaultable, pc, err, last,
    calls>>

\* a call: con0 and pre are the constraint class and the pinned type of the
\* class of the term when the call was made
Call(op, a, b, ty, con, con0, pre) ==
  [op |-> op, a |-> a, b |-> b, ty |-> ty, con |-> con, con0 |-> con0,
   pre |-> pre]

NoCall == Call("", 0, 0, NoneTy, NoClass, NoClass, NoneTy)

PriorCon(S, t) == IF S.sets[t] = 0 THEN FIRST_CLASS ELSE Con(S, S.sets[t])
PriorSpecific(S, t) == IF S.sets[t] = 0 THEN NoneTy ELSE S.specifics[S.sets[t]]

NoVectors == [out |-> <<>>, err |-> NoErr, limit |-> 0, amb |-> FALSE]

Init ==
  /\ tc = NewConstraints(0)
  /\ context = [t \in Terms |-> -1]
  /\ model = NoModel
  /\ vectors = NoVectors
  /\ xt = NewConstraints(0)
  /\ xcalls = <<>>
  /\ defaultable = <<>>
  /\ pc = "gather"
  /\ err = NoErr
  /\ last = NoCall
  /\ calls = 0
  /\ gens = [e \in Enums |-> NoGen]
  /\ smt = NewSmt
  /\ ref = NoCheck

\* the effect of a gatherer call with result res
Gathered(res, c) ==
  /\ tc' = res.st
  /\ err' = res.err
  /\ pc' = IF res.err = NoErr THEN "gather" ELSE "failed"
  /\ last' = c
  /\ calls' = calls + 1
  /\ UNCHANGED <<context, model, vectors, xt, xcalls, defaultable>>
  /\ UNCHANGED <<gens, smt, ref>>

EqTypes(T, max) ==
  /\ pc = "gather" /\ calls < max
  /\ \E a, b \in T :
       Gathered(eq_types(tc, a, b, context, FALSE),
                Call("eq_types", a, b, NoneTy, NoClass, NoClass, NoneTy))

Specific(T, Tys, max) ==
  /\ pc = "gather" /\ calls < max
  /\ \E t \in T, ty \in Tys :
       Gathered(specific(tc, t, ty, context, FALSE),
                Call("specific", t, 0, ty, NoClass, NoClass,
                     PriorSpecific(tc, t)))

Constrain(T, Cs, max) ==
  /\ pc = "gather" /\ calls < max
  /\ \E t \in T, c \in Cs :
       Gathered(constrain(tc, t, c, context, FALSE),
                Call("constrain", t, 0, NoneTy, c, PriorCon(tc, t), NoneTy))

WidthOrder(T, max) ==
  /\ pc = "gather" /\ calls < max
  /\ \E lo, hi \in T :
       Gathered(width_order(tc, lo, hi, context, FALSE),
                Call("width_order", lo, hi, NoneTy, NoClass, NoClass, NoneTy))

WidthOrderInt(T, Los, max) ==
  /\ pc = "gather" /\ calls < max
  /\ \E lo \in Los, hi \in T :
       Gathered(width_order_int(tc, lo, hi, context, FALSE),
                Call("width_order_int", lo, hi, NoneTy, NoClass, NoClass,
                     NoneTy))

WidthEqual(Pairs, max) ==
  /\ pc = "gather" /\ calls < max
  /\ \E p \in Pairs :
       Gathered(width_equal(tc, p[1], p[2], context, FALSE),
                Call("width_equal", p[1], p[2], NoneTy, NoClass, NoClass,
                     NoneTy))

Default(T, max) ==
  /\ pc = "gather" /\ calls < max
  /\ \E t \in T :
       Gathered(default(tc, t, 0, context, FALSE),
                Call("default", t, 0, NoneTy, NoClass, NoClass, NoneTy))

GetTypeModel ==
  /\ pc = "gather"
  /\ LET returned(g) ==
           /\ tc' = g.st
           /\ context' = g.ctx
           /\ model' = g.model
           /\ err' = g.err
           /\ pc' = IF g.err = NoErr THEN "model" ELSE "failed"
         orders(simp) ==
           \E ordSeq \in Perms(simp.ordering), repSeq \in Perms(reps(tc)),
              eqSeq \in Perms(simp.width_equalities) :
             returned(get_type_model(tc, ordSeq, repSeq, eqSeq, context))
     IN orders(simplify_orderings(tc).st)
  /\ last' = Call("get_type_model", 0, 0, NoneTy, NoClass, NoClass, NoneTy)
  /\ UNCHANGED <<vectors, xt, xcalls, defaultable, calls>>
  /\ UNCHANGED <<gens, smt, ref>>

\* type_vectors(int_limit) consumed to its end
TypeVectors(Limits) ==
  /\ pc = "model"
  /\ \E int_limit \in Limits, amb \in BOOLEAN :
       LET consumed(e) ==
             vectors' = [out |-> e.out, err |-> e.err, limit |-> int_limit,
                         amb |-> amb]
       IN consumed(type_vectors(model, int_limit, amb))
  /\ pc' = "vectors"
  /\ last' = Call("type_vectors", 0, 0, NoneTy, NoClass, NoClass, NoneTy)
  /\ UNCHANGED <<tc, context, model, xt, xcalls, defaultable, err, calls>>
  /\ UNCHANGED <<gens, smt, ref>>

\* the _ModelExtender the next call of the extending term acts on: extend
\* creates it on entry (line 513)
Extender == IF pc = "vectors" THEN NewConstraints(model.tyvars) ELSE xt

\* the effect of a call of the extending term with result res
Extended(res, c) ==
  /\ xt' = res.st
  /\ err' = res.err
  /\ pc' = IF res.err = NoErr THEN "extending" ELSE "failed"
  /\ last' = c
  /\ xcalls' = Append(xcalls, c)
  /\ UNCHANGED <<tc, context, model, vectors, defaultable, calls>>
  /\ UNCHANGED <<gens, smt, ref>>

ExtGuard == pc \in {"vectors", "extending"} /\ Len(xcalls) < MaxExtCalls

ExtEqTypes(T) ==
  /\ ExtGuard
  /\ \E a, b \in T :
       Extended(eq_types(Extender, a, b, context, TRUE),
                Call("eq_types", a, b, NoneTy, NoClass, NoClass, NoneTy))

ExtSpecific(T, Tys) ==
  /\ ExtGuard
  /\ \E t \in T, ty \in Tys :
       Extended(specific(Extender, t, ty, context, TRUE),
                Call("specific", t, 0, ty, NoClass, NoClass, NoneTy))

ExtConstrain(T, Cs) ==
  /\ ExtGuard
  /\ \E t \in T, c \in Cs :
       Extended(constrain(Extender, t, c, context, TRUE),
                Call("constrain", t, 0, NoneTy, c, NoClass, NoneTy))

ExtWidthOrder(T) ==
  /\ ExtGuard
  /\ \E lo, hi \in T :
       Extended(width_order(Extender, lo, hi, context, TRUE),
                Call("width_order", lo, hi, NoneTy, NoClass, NoClass, NoneTy))

ExtWidthOrderInt(T, Los) ==
  /\ ExtGuard
  /\ \E lo \in Los, hi \in T :
       Extended(width_order_int(Extender, lo, hi, context, TRUE),
                Call("width_order_int", lo, hi, NoneTy, NoClass, NoClass,
                     NoneTy))

ExtWidthEqual(T) ==
  /\ ExtGuard
  /\ \E a, b \in T :
       Extended(width_equal(Extender, a, b, context, TRUE),
                Call("width_equal", a, b, NoneTy, NoClass, NoClass, NoneTy))

\* the sequences of at most two distinct members of a set
UpTo2(set) ==
  {<<>>} \cup {<<t>> : t \in set}
  \cup {<<p[1], p[2]>> : p \in {q \in set \X set : q[1] # q[2]}}

\* the rest of extend once the term has been gathered (lines 524-582)
Extend ==
  /\ pc = "extending"
  /\ LET keys == {t \in Terms : xt.sets[t] # 0}
         returned(dl, x) ==
           /\ xt' = x.st
           /\ context' = x.ctx
           /\ defaultable' = dl
           /\ err' = x.err
           /\ pc' = IF x.err = NoErr THEN "extended" ELSE "failed"
         orders(dl, X, simp) ==
           \E repSeq \in Perms(reps(X)),
              eqSeq \in Perms(simp.width_equalities),
              ordSeq \in Perms(simp.ordering) :
             returned(dl, extend_finish(xt, model, context, dl, repSeq,
                                        eqSeq, ordSeq))
         defaulted(dl, X) == orders(dl, X, simplify_orderings(X).st)
     IN \E dl \in UpTo2(keys) :
          defaulted(dl, extend_defaults(xt, dl, model, context).st)
  /\ last' = Call("extend", 0, 0, NoneTy, NoClass, NoClass, NoneTy)
  /\ UNCHANGED <<tc, model, vectors, xcalls, calls>>
  /\ UNCHANGED <<gens, smt, ref>>

\* a call of type_vectors on the model: it returns a new generator
StartEnum(Limits) ==
  /\ pc = "model"
  /\ \E e \in Enums, int_limit \in Limits, amb \in BOOLEAN :
       /\ gens[e].status = "none"
       /\ \A d \in Enums : gens[d].status # "none" => gens[d].amb = amb
       /\ gens' = [gens EXCEPT ![e] = new_generator(model, int_limit, amb)]
  /\ UNCHANGED <<tvars, smt, ref>>

\* the consumer of the generator e asks for its next vector
Advance(e) ==
  /\ gens[e].status \in {"created", "suspended"}
  /\ gens' = [gens EXCEPT ![e] = gen_next(model, gens[e])]
  /\ UNCHANGED <<tvars, smt, ref>>

\* smt(term): SMTTranslator.__call__
SmtCall(Ts, max) ==
  /\ smt.ops < max
  /\ \E term \in Ts :
       LET returned(r) ==
             smt' = [T |-> r.T,
                     ret |-> Append(smt.ret,
                               [v |-> r.v, defs |-> r.T.defs,
                                nops |-> r.T.nops, qvars |-> r.T.qvars]),
                     last |-> [op |-> "call", term |-> term, v |-> r.v,
                               pre |-> smt.T],
                     ops |-> smt.ops + 1]
       IN returned(translator_call(smt.T, term))
  /\ UNCHANGED <<tvars, gens, ref>>

\* smt.eval(term): the lists it extends are those the last __call__ returned
SmtEval(Ts, max) ==
  /\ smt.ops < max
  /\ \E term \in Ts :
       LET returned(r) ==
             smt' = [T |-> r.T,
                     ret |-> IF smt.ret = <<>> THEN smt.ret
                             ELSE [smt.ret EXCEPT ![Len(smt.ret)] =
                                     [@ EXCEPT !.defs = r.T.defs,
                                               !.nops = r.T.nops,
                                               !.qvars = r.T.qvars]],
                     last |-> [op |-> "eval", term |-> term, v |-> r.v,
                               pre |-> smt.T],
                     ops |-> smt.ops + 1]
       IN returned(eval(smt.T, term))
  /\ UNCHANGED <<tvars, gens, ref>>

\* check_refinement(src, tgt, pre) is called and runs up to the first query
StartCheck(Ts, Pres, Models) ==
  /\ ref.status = "none"
  /\ \E src \in Ts, tgt \in Ts, pre \in Pres, poison_undef \in BOOLEAN,
        models \in Models :
       ref' = begin_model([NoCheck EXCEPT !.src = src, !.tgt = tgt,
                                          !.pre = pre,
                                          !.poison_undef = poison_undef,
                                          !.models = models], 1)
  /\ UNCHANGED <<tvars, gens, smt>>

\* the solver answers the query and check_refinement runs up to the next
\* query or to its end
SolverCheck ==
  /\ ref.status = "running"
  /\ \E result \in CheckResults, available \in BOOLEAN :
       /\ result = "sat" => available
       /\ result = "unsat" => ~available
       /\ ref' = after_check(ref, result, available)
  /\ UNCHANGED <<tvars, gens, smt>>

(***************************************************************************)
(* Specifications                                                          *)
(***************************************************************************)
GTerms == 1 .. NTerms
GTypes == {IntType(1), IntType(8), HalfType, PtrType}
GLos == {0, 2, 9}
GLimits == {3, 10}

\* the gatherer with all its calls, the model and its type vectors
Next ==
  \/ EqTypes(GTerms, MaxCalls)
  \/ Specific(GTerms, GTypes, MaxCalls)
  \/ Constrain(GTerms, Classes, MaxCalls)
  \/ WidthOrder(GTerms, MaxCalls)
  \/ WidthOrderInt(GTerms, GLos, MaxCalls)
  \/ WidthEqual(GTerms \X GTerms, MaxCalls)
  \/ Default(GTerms, MaxCalls)
  \/ GetTypeModel
  \/ TypeVectors(GLimits)

Spec == Init /\ [][Next]_vars

OTerms == 1 .. NTermsOrd

\* the gatherer with width orderings, unification and incompatible classes
NextOrd ==
  \/ WidthOrder(OTerms, MaxCallsOrd)
  \/ EqTypes(OTerms, MaxCallsOrd)
  \/ Constrain(OTerms, {FLOAT, PTR}, MaxCallsOrd)
  \/ GetTypeModel

SpecOrd == Init /\ [][NextOrd]_vars

ETerms == 1 .. NTermsEq
EPairs == {p \in ETerms \X ETerms : p[1] < p[2]}

\* the gatherer with width equalities and pinned types
NextEq ==
  \/ WidthEqual(EPairs, MaxCallsEq)
  \/ Specific(ETerms, {IntType(1)}, MaxCallsEq)
  \/ GetTypeModel
  \/ TypeVectors({3})

SpecEq == Init /\ [][NextEq]_vars

\* the terms of the extending term: those of the model and a new one
XTerms == 1 .. NTerms + 1
XTypes == {IntType(8)}

\* a model and two enumerations of its type vectors, advanced in any
\* interleaving; a consumer of a generator keeps asking until it is finished
NextEnum ==
  \/ Constrain(GTerms, {FLOAT, INT}, MaxCallsEnum)
  \/ WidthOrder(GTerms, MaxCallsEnum)
  \/ WidthEqual(GTerms \X GTerms, MaxCallsEnum)
  \/ GetTypeModel
  \/ StartEnum({2})
  \/ \E e \in Enums : Advance(e)

SpecEnum ==
  Init /\ [][NextEnum]_vars /\ \A e \in Enums : WF_vars(Advance(e))

\* the arguments of the analysis predicates: a symbolic constant, an
\* ordinary input and a literal
MustArgs == {Input("C", "1"), Input("%", "x"), Literal(1)}
MustTerms ==
  {Node(c, a, NoArg, <<>>) : c \in UnaryMust \cup UnaryDirect, a \in MustArgs}
  \cup {Node(c, a, b, <<>>) :
          c \in BinaryMust \cup BinaryDirect, a \in MustArgs, b \in MustArgs}

\* one translator translating analysis predicates
NextMust ==
  \/ SmtCall(MustTerms, MaxMustOps)
  \/ SmtEval(MustTerms, MaxMustOps)

SpecMust == Init /\ [][NextMust]_vars

\* terms that take fresh names, extend defs, nops and qvars, or do neither
FreshTerms ==
  {UndefValue, Literal(1),
   Node("AddInst", UndefValue, Input("%", "x"), <<"nsw">>),
   Node("UDivInst", UndefValue, UndefValue, <<>>),
   Node("Power2Pred", Input("%", "x"), NoArg, <<>>),
   Node("OneBitsCnxp", Input("%", "x"), NoArg, <<>>)}

\* one translator invoked by __call__ and eval in any order
NextFresh ==
  \/ SmtCall(FreshTerms, MaxFreshOps)
  \/ SmtEval(FreshTerms, MaxFreshOps)

SpecFresh == Init /\ [][NextFresh]_vars

\* the terms, preconditions and type models of the refinement checks
RefTerms ==
  {Input("%", "x"), UndefValue,
   Node("UDivInst", Input("%", "x"), Input("C", "1"), <<"exact">>)}
RefPres == {NoArg, Node("MaskZeroPred", Input("C", "1"), Input("%", "x"), <<>>)}
RefTypes == {IntType(8), HalfType}
RefModels ==
  UNION {[1 .. n -> RefTypes] : n \in 0 .. MaxModels}

\* a run of check_refinement against a solver that may answer anything
NextRef ==
  \/ StartCheck(RefTerms, RefPres, RefModels)
  \/ SolverCheck

SpecRef == Init /\ [][NextRef]_vars

\* a model with defaulted terms, its type vectors and its extension by a
\* term with defaultable arguments
NextDef ==
  \/ Default(GTerms, MaxCallsDef)
  \/ EqTypes(GTerms, MaxCallsDef)
  \/ GetTypeModel
  \/ TypeVectors({3})
  \/ ExtEqTypes(XTerms)
  \/ ExtConstrain(XTerms, {INT, FLOAT})
  \/ Extend

SpecDef == Init /\ [][NextDef]_vars

\* a model of pinned and constrained terms, its type vectors and its
\* extension by a term
NextExt ==
  \/ Specific(GTerms, XTypes, MaxCallsExt)
  \/ Constrain(GTerms, {INT, FLOAT}, MaxCallsExt)
  \/ EqTypes(GTerms, MaxCallsExt)
  \/ WidthEqual(GTerms \X GTerms, MaxCallsExt)
  \/ GetTypeModel
  \/ TypeVectors({10})
  \/ ExtEqTypes(XTerms)
  \/ ExtSpecific(XTerms, XTypes)
  \/ ExtConstrain(XTerms, {INT, FLOAT})
  \/ ExtWidthOrder(XTerms)
  \/ ExtWidthOrderInt(XTerms, {0, 8, 9})
  \/ ExtWidthEqual(XTerms)
  \/ Extend

SpecExt == Init /\ [][NextExt]_vars

(***************************************************************************)
(* Properties of the constraint lattice and of the gatherer                *)
(***************************************************************************)
\* the class the last constrain call left, NoClass when it raised
ConstrainResult ==
  IF err = ErrConstraints THEN NoClass ELSE Con(tc, tc.sets[last.a])

\* the meet table as first stated: FLOAT or PTR with any other class is
\* bottom
StatedMeet(c1, c2) ==
  LET lo == IF c1 > c2 THEN c2 ELSE c1
      hi == IF c1 > c2 THEN c1 ELSE c2
  IN IF lo = NUMBER /\ hi = PTR THEN NoClass
     ELSE IF lo = NUMBER /\ hi = INT_PTR THEN INT
     ELSE IF (c1 = FLOAT \/ c2 = FLOAT) /\ c1 # c2 THEN NoClass
     ELSE IF (c1 = PTR \/ c2 = PTR) /\ c1 # c2 THEN NoClass
     ELSE hi

\* the meet table with FLOAT and PTR bottom only against a class of larger
\* index
AmendedMeet(c1, c2) ==
  LET lo == IF c1 > c2 THEN c2 ELSE c1
      hi == IF c1 > c2 THEN c1 ELSE c2
  IN IF lo = NUMBER /\ hi = PTR THEN NoClass
     ELSE IF lo = NUMBER /\ hi = INT_PTR THEN INT
     ELSE IF lo = FLOAT /\ hi \in {INT_PTR, PTR, INT, BOOL} THEN NoClass
     ELSE IF lo = PTR /\ hi \in {INT, BOOL} THEN NoClass
     ELSE hi

\* C8 as stated: a constrain call on a class with constraint con0 and with
\* argument con leaves most_specific(con0, con) as given by the stated meet
\* table, in which FLOAT (and PTR) with any other class is bottom
C8_StatedMeetTable ==
  (last.op = "constrain" /\ err \in {NoErr, ErrConstraints})
    => ConstrainResult = StatedMeet(last.con0, last.con)

\* C8 amended: most_specific(con0, con) is bottom for (NUMBER, PTR), INT for
\* (NUMBER, INT_PTR), bottom for FLOAT with INT_PTR, PTR, INT or BOOL and for
\* PTR with INT or BOOL, and otherwise the class of larger index, in both
\* argument orders
C8_AmendedMeetTable ==
  (last.op = "constrain" /\ err \in {NoErr, ErrConstraints})
    => ConstrainResult = AmendedMeet(last.con0, last.con)

\* a constrain call met FLOAT with the weaker NUMBER already recorded
C8_Witness ==
  /\ last.op = "constrain" /\ last.con0 = NUMBER /\ last.con = FLOAT
  /\ err = NoErr /\ ConstrainResult = FLOAT

\* the outcome of constrain(t, c1); constrain(t, c2) on the gatherer S: the
\* exception raised and the final class of the term
ConstrainTwice(S, t, c1, c2) ==
  LET outcome(b) ==
        IF b.err # NoErr THEN <<b.err, NoClass>>
        ELSE <<NoErr, Con(b.st, b.st.sets[t])>>
      second(a) ==
        IF a.err # NoErr THEN <<a.err, NoClass>>
        ELSE outcome(constrain(a.st, t, c2, context, FALSE))
  IN second(constrain(S, t, c1, context, FALSE))

\* C7: from every state of the gatherer, for every term and classes c1, c2,
\* constrain(t, c1); constrain(t, c2) and the reversed sequence either both
\* raise 'Incompatible constraints' or both end with the same class
C7_MeetCommutes ==
  pc = "gather" =>
    \A t \in GTerms, c1, c2 \in Classes :
      ConstrainTwice(tc, t, c1, c2) = ConstrainTwice(tc, t, c2, c1)

\* the gatherer has constrained a term twice, the second time a term that is
\* not the representative of its class
C7_Witness ==
  /\ pc = "gather" /\ last.op = "constrain" /\ last.con0 = NUMBER
  /\ last.con = INT_PTR /\ tc.sets[last.a] # last.a
  /\ Con(tc, tc.sets[last.a]) = INT

\* C9: specific(t, ty) on a class pinned to another type raises the typing
\* Error 'Incompatible types' and leaves the pinned type in place
C9_SpecificConflict ==
  (last.op = "specific" /\ last.pre # NoneTy /\ last.ty # last.pre)
    => /\ err = ErrTypes
       /\ tc.specifics[tc.sets[last.a]] = last.pre

(***************************************************************************)
(* Properties of the type vectors of a model                               *)
(***************************************************************************)
Yielded == {vectors.out[i] : i \in DOMAIN vectors.out}
Tyvars == 0 .. model.tyvars - 1
LowerBounds(i) == {model.lower_bounds[i][k] : k \in DOMAIN model.lower_bounds[i]}

\* what a constraint class admits, by the lattice
Admits(con, ty) ==
  CASE con = FIRST_CLASS -> ty[1] \in {"int", "float", "ptr"}
    [] con = NUMBER -> ty[1] \in {"int", "float"}
    [] con = FLOAT -> ty[1] = "float"
    [] con = INT_PTR -> ty[1] \in {"int", "ptr"}
    [] con = PTR -> ty[1] = "ptr"
    [] con = INT -> ty[1] = "int"
    [] con = BOOL -> ty = <<"int", 1, 0>>

\* C2: in every vector every variable is wider than its lower bounds and
\* than its integer lower bound, and an integer lower bound of int_limit - 1
\* leaves no vector
C2_WidthMonotone ==
  pc = "vectors" =>
    /\ \A v \in Yielded : \A i \in Tyvars :
         /\ \A j \in LowerBounds(i) : bits(v[i]) > bits(v[j])
         /\ model.min_width[i] # -1 => bits(v[i]) > model.min_width[i]
    /\ (\E i \in Tyvars : model.min_width[i] = vectors.limit - 1)
         => Yielded = {}

\* C3: every type of every vector is admitted by the constraint class of
\* its variable, pinned or not; a BOOL variable is always IntType(1)
C3_ConstraintSatisfied ==
  pc = "vectors" =>
    \A v \in Yielded : \A i \in Tyvars : Admits(model.constraint[i], v[i])

\* vectors were yielded for a model with a pinned variable besides the
\* default and an unpinned variable constrained below FIRST_CLASS
C3_Witness ==
  /\ pc = "vectors" /\ Yielded # {}
  /\ \E i \in Tyvars : model.specific[i] # NoneTy /\ i # model.default_id
  /\ \E i \in Tyvars : model.specific[i] = NoneTy
                        /\ model.constraint[i] \in {NUMBER, INT_PTR, BOOL}

\* the candidate types of variable i: its pinned type, or the integer types
\* below the limit, the three floats and the pointer
Universe(i) ==
  IF model.specific[i] # NoneTy THEN {model.specific[i]}
  ELSE {IntType(w) : w \in 1 .. vectors.limit - 1}
       \cup {HalfType, SingleType, DoubleType, PtrType}

\* whether the tuple v meets the four conditions of the enumeration
Consistent(v) ==
  \A i \in Tyvars :
    /\ Admits(model.constraint[i], v[i])
    /\ \A j \in LowerBounds(i) : bits(v[i]) > bits(v[j])
    /\ bits(v[i]) > (IF model.min_width[i] = -1 THEN 0 ELSE model.min_width[i])
    /\ model.width_equality[i] # -1
         => bits(v[i]) = bits(v[model.width_equality[i]])

\* C4: every tuple over the candidate universe that meets the four
\* conditions is yielded
C4_Complete ==
  pc = "vectors" =>
    \A v \in [Tyvars -> UNION {Universe(i) : i \in Tyvars}] :
      ((\A i \in Tyvars : v[i] \in Universe(i)) /\ Consistent(v))
        => v \in Yielded

(***************************************************************************)
(* Properties of get_type_model                                            *)
(***************************************************************************)
\* C5: the numbering of the type variables is a topological order of the
\* lower bounds
C5_Topological ==
  pc = "model" => \A i \in Tyvars : \A j \in LowerBounds(i) : j < i

\* a model with a chain of two width orderings
C5_Witness ==
  /\ pc = "model"
  /\ \E i \in Tyvars : \E j \in LowerBounds(i) : LowerBounds(j) # {}

\* the width ordering over the current representatives
RepOrdering ==
  {<<tc.sets[p[1][2]], tc.sets[p[2]]>> :
     p \in {q \in tc.ordering : q[1][1] = "t"}}

RECURSIVE ReachableIn(_, _, _)
ReachableIn(R, X, n) ==
  IF n = 0 THEN X
  ELSE ReachableIn(R, X \cup {p[2] : p \in {q \in R : q[1] \in X}}, n - 1)

HasCycle ==
  \E p \in RepOrdering :
    p[1] \in ReachableIn(RepOrdering, {p[2]}, Cardinality(Terms))

\* every ordering between two terms relates classes that can be met (the
\* assertion of simplify_orderings, lines 240-242)
OrderingCompatible ==
  \A p \in RepOrdering : most_specific(Con(tc, p[1]), Con(tc, p[2])) # NoClass

\* C10 as stated: get_type_model raises 'circular ordering' exactly when
\* the width ordering over the representatives has a cycle
C10_CircularIffCycle ==
  last.op = "get_type_model" => (err = ErrCircular <=> HasCycle)

\* C10 amended: when the classes of every ordered pair of terms are
\* compatible, get_type_model raises 'circular ordering' exactly when the
\* width ordering over the representatives has a cycle; otherwise it never
\* raises that error without a cycle
C10_CircularIffCycleCompatible ==
  last.op = "get_type_model" =>
    /\ OrderingCompatible => (err = ErrCircular <=> HasCycle)
    /\ err = ErrCircular => HasCycle

\* get_type_model raised 'circular ordering' on a self-loop that a
\* unification made of a width ordering between two terms
C10_Witness ==
  /\ last.op = "get_type_model" /\ err = ErrCircular
  /\ \E p \in tc.ordering : p[1] = <<"t", p[2]>> /\ Size(tc, p[2]) > 1

\* C1: in every vector the variables of two terms recorded as width-equal
\* have types of the same size
C1_WidthEqual ==
  pc = "vectors" =>
    \A p \in tc.width_equalities : \A v \in Yielded :
      bits(v[context[p[1]]]) = bits(v[context[p[2]]])

(***************************************************************************)
(* Properties of extend                                                    *)
(***************************************************************************)
\* C6: after a successful extend every vector of the model passes the
\* Validator on every call the extending term issued
C6_ExtendNotStronger ==
  pc = "extended" =>
    \A v \in Yielded : \A k \in DOMAIN xcalls :
      validator_passes(xcalls[k], v, context, vectors.amb)

\* the Extend step: extend goes on from the gathered term to its end
ExtendStep == pc = "extending" /\ last'.op = "extend"

\* the defaultable terms whose class has no type variable once the term is
\* gathered
Undefaulted ==
  {defaultable'[i] : i \in {j \in DOMAIN defaultable' :
                              xt.rep_tyvar[xt.sets[defaultable'[j]]] = -1}}

\* C11: extend ties every defaultable term whose class has no type variable
\* to the default variable of the model: handling the defaultable terms
\* raises no AssertionError, and after a successful extend the context entry
\* of each such term is model.default_id
C11_DefaultTied ==
  [][ExtendStep =>
       /\ extend_defaults(xt, defaultable', model, context).err # ErrAssert
       /\ pc' = "extended" =>
            \A t \in Undefaulted : context'[t] = model.default_id]_vars

(***************************************************************************)
(* Properties of the width equalities of a model                           *)
(***************************************************************************)
\* the recorded width equalities as a symmetric relation on type variables
WidthPairs ==
  UNION {{<<context[p[1]], context[p[2]]>>, <<context[p[2]], context[p[1]]>>} :
           p \in tc.width_equalities}

\* the width-equality class of a variable: the transitive closure of the
\* recorded equalities
WidthClass(v) == ReachableIn(WidthPairs, {v}, model.tyvars)

\* C16: in every model each entry width_equality[v] = v' has v' < v, and v'
\* is the smallest type variable of the width-equality class of v
C16_SmallestOfClass ==
  pc \in {"model", "vectors"} =>
    \A v \in Tyvars :
      model.width_equality[v] # -1 =>
        /\ model.width_equality[v] < v
        /\ \A u \in WidthClass(v) : model.width_equality[v] <= u

\* C17: for every two distinct type variables of a model,
\* width_equal_tyvars returns True exactly when they are in the same
\* width-equality class
C17_WidthEqualTyvars ==
  pc \in {"model", "vectors"} =>
    \A a, b \in Tyvars :
      a # b => (width_equal_tyvars(model, a, b) = "True" <=> b \in WidthClass(a))

(***************************************************************************)
(* Properties of get_type_model and the context                            *)
(***************************************************************************)
\* C20: when get_type_model fails because a pinned type does not satisfy
\* the constraint of its class, the context mapping is left unchanged
C20_ContextUnchanged ==
  [][(last'.op = "get_type_model" /\ err' = ErrNotMet) =>
       context' = context]_vars

(***************************************************************************)
(* Properties of the generators of type_vectors                            *)
(***************************************************************************)
IsPrefix(s, t) == Len(s) <= Len(t) /\ \A i \in DOMAIN s : s[i] = t[i]

\* the generator g has yielded a prefix of the sequence of an enumeration
\* of its own, and all of it, with the same end, when it is finished
SameSequence(g, full) ==
  /\ IsPrefix(g.out, full.out)
  /\ g.status = "finished" => (g.out = full.out /\ g.err = full.err)

Restartable ==
  \A e \in Enums :
    gens[e].status # "none" =>
      SameSequence(gens[e], type_vectors(model, gens[e].limit, gens[e].amb))

\* no step changes a vector that was yielded
YieldedKept ==
  \A e \in Enums : \A i \in DOMAIN gens[e].out :
    i \in DOMAIN gens'[e].out /\ gens'[e].out[i] = gens[e].out[i]

\* C15: type_vectors terminates and is restartable: every enumeration that
\* was started finishes; in any interleaving each enumeration yields the
\* sequence of a fresh enumeration on its own, and a yielded vector is never
\* changed by a later step
C15_Restartable ==
  /\ []Restartable
  /\ [][YieldedKept]_vars
  /\ \A e \in Enums :
       (gens[e].status = "created") ~> (gens[e].status = "finished")

\* two enumerations of one model were interleaved: the first was suspended
\* after a vector while the second ran to its end with several vectors
C15_Witness ==
  /\ gens[1].status = "suspended" /\ Len(gens[1].out) = 1
  /\ gens[2].status = "finished" /\ Len(gens[2].out) > 2

(***************************************************************************)
(* Properties of the SMTTranslator                                         *)
(***************************************************************************)
MustClasses == UnaryMust \cup UnaryDirect \cup BinaryMust \cup BinaryDirect

\* the translator as the last invocation found it, after the reset of
\* __call__
Entered ==
  IF smt.last.op = "call"
  THEN [smt.last.pre EXCEPT !.defs = <<>>, !.nops = <<>>, !.qvars = <<>>]
  ELSE smt.last.pre

\* every argument term of the last invocation is a constant
AllArgsConstant ==
  /\ is_const(smt.last.term[2])
  /\ smt.last.term[3] # NoArg => is_const(smt.last.term[3])

\* the predicate of the last invocation on its translated arguments
LastPredicate ==
  PredicateOf(smt.last.term[1], eval(Entered, smt.last.term[2]).v,
              IF smt.last.term[3] = NoArg THEN NoArg
              ELSE eval(Entered, smt.last.term[3]).v)

\* C18: the translation of a must-analysis predicate returns the predicate
\* itself and adds nothing to defs when every argument term is a constant;
\* otherwise it increments fresh, returns a fresh boolean c and appends
\* c => predicate(args) to defs
C18_MustAnalysis ==
  smt.last.term[1] \in MustClasses =>
    IF AllArgsConstant
    THEN /\ smt.last.v = LastPredicate
         /\ smt.T.defs = Entered.defs
         /\ smt.T.fresh = Entered.fresh
    ELSE /\ smt.T.fresh = Entered.fresh + 1
         /\ smt.last.v = Z1("z3.Bool", "ana_" \o ToString(smt.T.fresh))
         /\ smt.T.defs =
              Append(Entered.defs, Z2("z3.Implies", smt.last.v, LastPredicate))

SeqSet(s) == {s[i] : i \in DOMAIN s}

\* what translating the last term yields on a translator that has nothing
\* but the counter of the translator as the invocation found it
FromEmpty ==
  eval([SMTTranslator(smt.last.pre.types) EXCEPT !.fresh = smt.last.pre.fresh],
       smt.last.term).T

\* C19: over any sequence of __call__ and eval on one translator, a __call__
\* leaves in defs, nops and qvars only what the translation of its term
\* added, the counter fresh never decreases, every name taken for an undef
\* or analysis variable differs from all earlier ones, and the qvars
\* returned by different calls are disjoint
C19_FreshNames ==
  /\ smt.last.op = "call" =>
       /\ smt.T.defs = FromEmpty.defs
       /\ smt.T.nops = FromEmpty.nops
       /\ smt.T.qvars = FromEmpty.qvars
  /\ smt.T.fresh >= smt.last.pre.fresh
  /\ \A i, j \in DOMAIN smt.T.z3names :
       i # j => smt.T.z3names[i] # smt.T.z3names[j]
  /\ \A i, j \in DOMAIN smt.ret :
       i # j => SeqSet(smt.ret[i].qvars) \cap SeqSet(smt.ret[j].qvars) = {}

\* a second __call__ returned undef variables after a first __call__ and
\* an eval that extended the qvars the first call had returned
C19_Witness ==
  /\ smt.last.op = "call" /\ Len(smt.ret) = 2
  /\ Len(smt.ret[1].qvars) >= 2 /\ smt.ret[2].qvars # <<>>
  /\ smt.ops = 3 /\ smt.T.defs # <<>>

(***************************************************************************)
(* Properties of check_refinement                                          *)
(***************************************************************************)
\* the queries issued for the m-th type model, in the order of issue
LogOf(m) == SelectSeq(ref.log, LAMBDA e : e.model = m)

AllUnsat(L) == Len(L) = 3 /\ \A k \in DOMAIN L : L[k].result = "unsat"

QueryOrder == <<UB, POISON, UNEQUAL>>

\* C12: check_refinement_at issues its queries in the order UB, poison,
\* value equality; a query whose result is not unsat is the last one issued;
\* the RefinementError returned has the cause of that query; and None is
\* returned exactly when all three queries returned unsat
C12_QueryOrder ==
  \A m \in 1 .. Len(ref.models) :
    /\ Len(LogOf(m)) <= 3
    /\ \A k \in DOMAIN LogOf(m) :
         /\ LogOf(m)[k].query = QueryOrder[k]
         /\ LogOf(m)[k].result # "unsat" => k = Len(LogOf(m))
    /\ AllUnsat(LogOf(m)) => m \in DOMAIN ref.rets
    /\ m \in DOMAIN ref.rets =>
         /\ ref.rets[m].kind = "None" <=> AllUnsat(LogOf(m))
         /\ ref.rets[m].kind = "RefinementError" =>
              /\ LogOf(m) # <<>>
              /\ LogOf(m)[Len(LogOf(m))].result # "unsat"
              /\ ref.rets[m].cause = LogOf(m)[Len(LogOf(m))].query

\* the UB query was unsat, the poison query sat, and the error returned
\* has the cause POISON
C12_Witness ==
  /\ ref.status = "returned" /\ ref.result.kind = "RefinementError"
  /\ ref.result.cause = POISON
  /\ Len(ref.log) = 2 /\ ref.log[1].result = "unsat"
  /\ ref.log[2].result = "sat"

\* C13: check_refinement checks the type models one at a time in the order
\* of enumeration; it returns the RefinementError of the first one that
\* fails and checks none after it; it returns None exactly when every
\* enumerated type model verifies
C13_FirstFailure ==
  /\ \A k, l \in DOMAIN ref.log : k <= l => ref.log[k].model <= ref.log[l].model
  /\ \A e \in SeqSet(ref.log) : \A m \in 1 .. e.model - 1 :
       m \in DOMAIN ref.rets /\ ref.rets[m].kind = "None"
  /\ \A m \in DOMAIN ref.rets :
       ref.rets[m].kind # "None" =>
         /\ m = Len(ref.rets)
         /\ ref.status = "returned" /\ ref.result = ref.rets[m]
         /\ ref.result.types = ref.models[m]
         /\ \A e \in SeqSet(ref.log) : e.model <= m
  /\ ref.status = "returned" =>
       (ref.result.kind = "None" <=>
          /\ Len(ref.rets) = Len(ref.models)
          /\ \A m \in DOMAIN ref.rets : ref.rets[m].kind = "None")
  /\ (ref.status # "none" /\ Len(ref.rets) = Len(ref.models)
      /\ \A m \in DOMAIN ref.rets : ref.rets[m].kind = "None") =>
       (ref.status = "returned" /\ ref.result.kind = "None")

\* the first type model verified, the second failed, and its error was
\* returned
C13_Witness ==
  /\ ref.status = "returned" /\ Len(ref.models) = 2 /\ Len(ref.rets) = 2
  /\ ref.rets[1].kind = "None" /\ ref.result.kind = "RefinementError"
  /\ ref.result.types = ref.models[2] /\ ref.models[1] # ref.models[2]

\* C14: check_refinement_at never returns None for a type model on which a
\* query it issued returned unknown, and neither does check_refinement
C14_UnknownFails ==
  /\ \A m \in DOMAIN ref.rets :
       (\E e \in SeqSet(ref.log) : e.model = m /\ e.result = "unknown") =>
         ref.rets[m].kind # "None"
  /\ (ref.status = "returned" /\ \E e \in SeqSet(ref.log) : e.result = "unknown")
       => ref.result.kind # "None"

\* the equality query of a type model returned unknown after two unsat
\* results and a RefinementError was returned for it
C14_Witness ==
  /\ ref.status = "returned" /\ ref.result.kind = "RefinementError"
  /\ Len(ref.log) = 3 /\ ref.log[3].result = "unknown"
  /\ ref.result.cause = UNEQUAL

====
